---- MODULE Spec2Model ----
(***************************************************************************)
(* A model of the axon spiking-network engine: delayed spike transmission  *)
(* through the per-projection ring buffers (Prjn.SendSpike /               *)
(* Prjn.PrjnGatherSpikes), the event-driven synaptic calcium update        *)
(* (Prjn.SendSynCa / Prjn.RecvSynCa), the weight update and slow           *)
(* adaptation (WtFmDWt, SWtFmWt, SynScale) and the flat-array build        *)
(* (NetworkBase.Build, NetworkBase.BuildPrjnGBuf, Prjn.BuildGBuffs).       *)
(*                                                                         *)
(* float32 conductances and weights are modelled as integers: a spike      *)
(* contribution scale * Wt is an integer number of conductance units.      *)
(***************************************************************************)
EXTENDS Integers, Sequences, FiniteSets, TLC

(***************************************************************************)
(* Bounds of the model.                                                    *)
(***************************************************************************)
MaxDelay == 2     \* largest Com.Delay a projection is configured with
MaxCycle == 5     \* cycles that are run

\* the modelled network: a sending and a receiving layer of two neurons each
Senders == {0, 1}
Recvs == {0, 1}
NSend == Cardinality(Senders)
NRecv == Cardinality(Recvs)
\* the receiving layer's incoming projections, in RcvPrjns order
Prjns == {1, 2}

VARIABLES
    \* ---- spike transmission (prjn.go) ----
    cyc,        \* ctime.CycleTot: the cycle being computed
    phase,      \* position of the network-level cycle loop
    Delay,      \* [Prjns -> Nat]: pj.Params.Com.Delay
    Inhib,      \* [Prjns -> BOOLEAN]: pj.Params.Com.Inhib
    NPools,     \* len(rlay.Pools): 1 (layer pool only) or 1 + number of sub-pools
    Spike,      \* [Senders -> 0..1]: Neuron.Spike of the sending layer
    Zi,         \* [Prjns -> Nat]: pj.Vals.Gidx.Zi
    GBuf,       \* [Prjns -> [idx -> Int]]: pj.GBuf
    PIBuf,      \* [Prjns -> [idx -> Int]]: pj.PIBuf
    GRaw,       \* [Prjns -> [Recvs -> Int]]: pj.GVals[ri].GRaw
    FFsRaw,     \* [pool -> Int]: rlay.Pools[pi].Inhib.FFsRaw
    \* ---- history variables of the transmission model ----
    tagBuf,     \* [Prjns -> [idx -> SUBSET Nat]]: emission cycles held in each GBuf slot
    lags,       \* [Prjns -> SUBSET Nat]: (gather cycle - emission cycle) of deliveries seen
    inflight,   \* [Prjns -> [Recvs -> Int]]: added to GBuf and not yet read into GRaw
    ffsSum,     \* [pool -> Int]: sum of the pool slots the gather steps of this cycle read
    \* ---- concurrent execution of one phase (threads) ----
    thr,        \* per-thread position and registers while a phase runs concurrently
    \* ---- synaptic calcium (Prjn.SendSynCa / Prjn.RecvSynCa) ----
    caCyc,      \* ctime.CycleTot of the calcium model
    caDone,     \* the passes ("send", "recv") that have run in this cycle
    Learn,      \* pj.Params.Learn.Learn
    SnSpike,    \* [Senders -> 0..1]: Neuron.Spike of the sending layer
    RnSpike,    \* [Recvs -> 0..1]: Neuron.Spike of the receiving layer
    SnCaSpk,    \* [Senders -> [P, D]]: Neuron.CaSpkP, Neuron.CaSpkD of the senders
    RnCaSpk,    \* [Recvs -> [P, D]]: Neuron.CaSpkP, Neuron.CaSpkD of the receivers
    CaSyns,     \* [synapse -> [CaUpT, Ca, CaM, CaP, CaD]]: pj.Syns
    nUpd,       \* history: [synapse -> Nat], updates of its calcium state this cycle
    \* ---- weight update and slow adaptation (WtFmDWt, SWtFmWt, SynScale) ----
    wtCfg,      \* the projection's and receiving layer's switches, fixed at build
    wtSyns,     \* [synapse -> [Wt, LWt, SWt, DWt, DSWt]]: the afferents of the neuron
    AvgDif,     \* nrn.AvgDif of the receiving neuron
    wtN,        \* number of learning handlers run so far
    wtHist,     \* history: <<[dif, sum]>> AvgDif and sum of Wt after each SlowAdapt
    \* ---- network build (NetworkBase.Build, BuildPrjnGBuf, Prjn.BuildGBuffs) ----
    bldCon,     \* [projection -> SUBSET (sender x receiver)]: the connectivity pattern
    bldDelay,   \* [projection -> Nat]: the configured delay (Com.Delay, Com.MaxDelay)
    bldDone,    \* the build steps that have run
    Synapses,   \* nt.Synapses: the receiver-ordered synapse array
    SendSynIdxs, \* nt.SendSynIdxs: the sender-ordered table of synapse indexes
    PrjnIdxs,   \* [projection -> [PrjnIdx, SynapseSt, SendSynSt]]: pj.Params.Idxs
    NetMaxDelay, \* nt.MaxDelay
    PrjnGBufN,  \* [projection -> Nat]: len(pj.GBuf) as sliced from nt.PrjnGBuf
    GidxLen,    \* [projection -> Nat]: pj.Vals.Gidx.Len set by BuildGBuffs
    GBufN       \* [projection -> Nat]: len(pj.GBuf) as made by BuildGBuffs

txVars == <<cyc, phase, Delay, Inhib, NPools, Spike, Zi, GBuf, PIBuf, GRaw, FFsRaw,
            tagBuf, lags, inflight, ffsSum>>
caVars == <<caCyc, caDone, Learn, SnSpike, RnSpike, SnCaSpk, RnCaSpk, CaSyns, nUpd>>
wtVars == <<wtCfg, wtSyns, AvgDif, wtN, wtHist>>
bldVars == <<bldCon, bldDelay, bldDone, Synapses, SendSynIdxs, PrjnIdxs, NetMaxDelay,
             PrjnGBufN, GidxLen, GBufN>>

VARIABLES
    \* ---- configuration and the layer loop of NetworkBase.Build ----
    blPhase,    \* "config", "build" (inside Build's layer loop), "done" or "off"
    blOff,      \* [layer -> BOOLEAN]: ly.IsOff()
    blFail,     \* the layers whose ly.Build() returns an error
    blTooBig,   \* totSynapses > math.MaxUint32 once the layers are built
    blPrjns,    \* <<send, recv>> of the projections ConnectLayerNames has added
    blConnErr,  \* history: the name each failed ConnectLayerNames call reported
    blLi,       \* index of the layer that Build's loop is at
    blBuilt,    \* history: the layers whose Build() was called, in order
    emsg,       \* Build's emsg: the errors collected so far
    blRet       \* [done, err]: what Build returned

VARIABLES
    \* ---- weights files (ReadWtsJSON, SetWts, WriteWtsJSON) ----
    ioOn,       \* TRUE in the weights-file model
    ioNm,       \* nt.Nm
    ioMeta,     \* nt.MetaData
    ioPrjn,     \* [layer -> [GScale, Syns]]: the layer's receiving projection
    ioOut,      \* [layer -> file]: what Prjn.WriteWtsJSON last wrote, if anything
    ioN,        \* number of files read
    ioRes,      \* [kind, err]: how the last read ended
    ioIn,       \* history: the file the last network-level read was given
    ioPre,      \* history: [Nm, Meta, Prjn] as they were before the last read
    ioAtWrite   \* history: [layer -> Syns] as they were when ioOut was written

ioVars == <<ioOn, ioNm, ioMeta, ioPrjn, ioOut, ioN, ioRes, ioIn, ioPre, ioAtWrite>>

VARIABLES
    \* ---- the device driver (GPU.RunCycle, RunDWt, RunWtFmDWt, RunPipeline) ----
    gpuCall,    \* the driver function being run: "none", "cycle", "dwt", "wtfmdwt", "off"
    gpuPc,      \* position in that function: the next RunPipeline call
    gpuRun,     \* the pipeline submitted and not yet waited for, or "none"
    gpuTesting, \* ctx.Testing of the call
    gpuLog,     \* history: <<[k, ev]>> begin and end of the kernels of this call
    gpuCalls,   \* number of driver calls made
    gpuDone     \* history: [call, testing, log] of the last call that returned

gpuVars == <<gpuCall, gpuPc, gpuRun, gpuTesting, gpuLog, gpuCalls, gpuDone>>

VARIABLES
    \* ---- one projection run on the host and on the device side by side ----
    parOn,      \* this model is the one being run
    parType,    \* pj.PrjnType: "Forward" or "CTCtxt"
    parDelay,   \* pj.Com.Delay
    parCycle,   \* ctx.Cycle, the cycle within the theta cycle
    parTot,     \* ctx.CyclesTotal (ctx.CycleTot on the device)
    parPhase,   \* "hgather", "dgather", "neuron", "send"
    parSpike,   \* Neurons[si].Spike of the sending neurons
    parBurst,   \* Neurons[si].Burst of the sending neurons
    hGBuf,      \* host pj.GBuf of the receiving neuron
    dGBuf,      \* device GBuf of the receiving neuron
    hGRaw,      \* host: what the last gather read
    dGRaw,      \* device: what the last gather read
    rGBuf       \* host pj.GBuf when Prjn.RecvSpikes fills it (CPURecvSpikes)

parVars == <<parOn, parType, parDelay, parCycle, parTot, parPhase, parSpike,
             parBurst, hGBuf, dGBuf, hGRaw, dGRaw, rGBuf>>

VARIABLES
    \* ---- one neuron run through the cycle (ActParams of act.go) ----
    nrnOn,      \* the model being run: "off", "vm" or "g"
    nrnCfg,     \* the ActParams that are configured
    nrn,        \* the Neuron
    nrnPhase,   \* the next step of the cycle
    nrnCyc,     \* cycles run
    nrnHist     \* history: the branch VmFmG took, Vm before it, cycles since a spike

nrnVars == <<nrnOn, nrnCfg, nrn, nrnPhase, nrnCyc, nrnHist>>

VARIABLES
    \* ---- the kinase simulation (Sim.Run of pptg.go) ----
    kinOn,      \* this model is the one being run
    kinT,       \* t of the loop over ss.DurMsec
    kinR,       \* rSpk, rSpkCaM, rSpkCaP, rSpkCaD
    kinS,       \* sSpk, sSpkCaM, sSpkCaP, sSpkCaD
    kinC,       \* cSpk, cSpkCaM, cSpkCaP, cSpkCaD: updated every cycle
    kinO,       \* oSpkCaM, oSpkCaP, oSpkCaD, oCaM, oCaP: updated at spikes
    kinISI,     \* cISI
    kinIdle     \* history: idle cycles since the one spike so far, -1 otherwise

kinVars == <<kinOn, kinT, kinR, kinS, kinC, kinO, kinISI, kinIdle>>

errVars == <<blPhase, blOff, blFail, blTooBig, blPrjns, blConnErr, blLi, blBuilt, emsg, blRet>>

VARIABLES
    \* ---- mean subtraction of the weight deltas of one projection ----
    smOn,       \* this model is the one being run
    smSubMean,  \* pj.Params.Learn.Trace.SubMean
    smOrd,      \* the order in which RecvSyns(0) lists the neuron's synapses
    smPhase,    \* "dwt", "submean", "done"
    smPre,      \* sy.DWt of every synapse as the DWt pass left it
    smDWt       \* sy.DWt of every synapse

smVars == <<smOn, smSubMean, smOrd, smPhase, smPre, smDWt>>

VARIABLES
    \* ---- Prjn.SetSynVal called on one projection ----
    ssOn,       \* this model is the one being run
    ssPrjn,     \* the projection: 1 is full, 2 is one-to-one
    ssSyns,     \* pj.Syns
    ssPre,      \* pj.Syns before the last call
    ssArgs,     \* the arguments of the last call
    ssRet,      \* the error the last call returned: "nil" or "err"
    ssN         \* calls made

ssVars == <<ssOn, ssPrjn, ssSyns, ssPre, ssArgs, ssRet, ssN>>

VARIABLES
    \* ---- external input applied to one neuron of one layer ----
    exOn,       \* this model is the one being run
    exLayType,  \* ly.LayType
    exExts,     \* Exts[ly.Idxs.ExtsSt + ni], the value the caller provides
    exNrn,      \* the neuron's Ext value and whether it has one
    exN         \* ApplyExt calls made

exVars == <<exOn, exLayType, exExts, exNrn, exN>>

VARIABLES
    \* ---- weight symmetry between a projection and its reciprocal ----
    symOn,      \* this model is the one being run
    symPj,      \* the connections of pj, as pairs <<sender, receiver>>
    symRpj,     \* the connections of the reciprocal projection rpj
    symRSyns,   \* rpj.Syns
    symPanic,   \* InitWtSym ended in an index-out-of-range panic
    symDone     \* InitWtSym has been run

symVars == <<symOn, symPj, symRpj, symRSyns, symPanic, symDone>>

VARIABLES
    \* ---- projection indexes of a network with layers switched off ----
    bxOn,        \* this model is the one being run
    bxNRecv,     \* len(ly.RcvPrjns) of every layer
    bxLayOff,    \* the layers for which ly.IsOff()
    bxHadParams, \* an earlier Build left pj.Params in every projection
    bxPrjns,     \* nt.Prjns
    bxPrjnIdx,   \* pj.Params.Idxs.PrjnIdx of every projection, -1 if never set
    bxSyPrjnIdx, \* sy.PrjnIdx of the projection's synapses, -1 if never set
    bxPanic,     \* a nil pj.Params was dereferenced
    bxDone       \* the functions that have been run

bxVars == <<bxOn, bxNRecv, bxLayOff, bxHadParams, bxPrjns, bxPrjnIdx, bxSyPrjnIdx,
            bxPanic, bxDone>>

VARIABLES
    \* ---- one neuron of a dopamine-display layer ----
    rlOn,       \* this model is the one being run
    rlLayType,  \* ly.LayType: "RWDaLayer" or "TDDaLayer"
    rlDA,       \* ctx.NeuroMod.DA
    rlNrn,      \* the neuron's GeRaw and GeSyn
    rlN         \* cycles run

rlVars == <<rlOn, rlLayType, rlDA, rlNrn, rlN>>

lateVars == <<smVars, ssVars, exVars, symVars, bxVars, rlVars>>

oldVars == <<txVars, thr, caVars, wtVars, bldVars>>
moreVars == <<errVars, ioVars, gpuVars, parVars, nrnVars, kinVars>>
vars == <<oldVars, moreVars, lateVars>>
\* what each model leaves alone
notTx == <<caVars, wtVars, bldVars, moreVars, lateVars>>
notCa == <<txVars, thr, wtVars, bldVars, moreVars, lateVars>>
notWt == <<txVars, thr, caVars, bldVars, moreVars, lateVars>>
notBld == <<txVars, thr, caVars, wtVars, moreVars, lateVars>>
notErr == <<oldVars, ioVars, gpuVars, parVars, nrnVars, kinVars, lateVars>>
notIo == <<oldVars, errVars, gpuVars, parVars, nrnVars, kinVars, lateVars>>
notGpu == <<oldVars, errVars, ioVars, parVars, nrnVars, kinVars, lateVars>>
notPar == <<oldVars, errVars, ioVars, gpuVars, nrnVars, kinVars, lateVars>>
notNrn == <<oldVars, errVars, ioVars, gpuVars, parVars, kinVars, lateVars>>
notKin == <<oldVars, errVars, ioVars, gpuVars, parVars, nrnVars, lateVars>>
notRl == <<oldVars, moreVars, smVars, ssVars, exVars, symVars, bxVars>>
notBx == <<oldVars, moreVars, smVars, ssVars, exVars, symVars, rlVars>>
notSym == <<oldVars, moreVars, smVars, ssVars, exVars, bxVars, rlVars>>
notEx == <<oldVars, moreVars, smVars, ssVars, symVars, bxVars, rlVars>>
notSs == <<oldVars, moreVars, smVars, exVars, symVars, bxVars, rlVars>>
notSm == <<oldVars, moreVars, ssVars, exVars, symVars, bxVars, rlVars>>

ErrOff ==
    /\ blPhase = "off" /\ blOff = <<>> /\ blFail = {} /\ blTooBig = FALSE
    /\ blPrjns = <<>>
    /\ blConnErr = <<>> /\ blLi = 0 /\ blBuilt = <<>> /\ emsg = <<>>
    /\ blRet = [done |-> FALSE, err |-> <<>>]

IoOff ==
    /\ ioOn = FALSE /\ ioNm = "" /\ ioMeta = <<>> /\ ioPrjn = <<>> /\ ioOut = <<>>
    /\ ioN = 0 /\ ioRes = <<>> /\ ioIn = <<>> /\ ioPre = <<>> /\ ioAtWrite = <<>>

GpuOff ==
    /\ gpuCall = "off" /\ gpuPc = 0 /\ gpuRun = "none" /\ gpuTesting = FALSE
    /\ gpuLog = <<>> /\ gpuCalls = 0 /\ gpuDone = <<>>

ParOff ==
    /\ parOn = FALSE /\ parType = "Forward" /\ parDelay = 0 /\ parCycle = 0
    /\ parTot = 0 /\ parPhase = "off" /\ parSpike = <<>> /\ parBurst = <<>>
    /\ hGBuf = <<>> /\ dGBuf = <<>> /\ hGRaw = 0 /\ dGRaw = 0 /\ rGBuf = <<>>

NrnOff ==
    /\ nrnOn = "off" /\ nrnCfg = <<>> /\ nrn = <<>> /\ nrnPhase = "off"
    /\ nrnCyc = 0 /\ nrnHist = <<>>

KinOff ==
    /\ kinOn = FALSE /\ kinT = 0 /\ kinR = <<>> /\ kinS = <<>> /\ kinC = <<>>
    /\ kinO = <<>> /\ kinISI = 0 /\ kinIdle = -1

SmOff ==
    /\ smOn = FALSE /\ smSubMean = 0 /\ smOrd = <<>> /\ smPhase = "off"
    /\ smPre = <<>> /\ smDWt = <<>>

SsOff ==
    /\ ssOn = FALSE /\ ssPrjn = 0 /\ ssSyns = <<>> /\ ssPre = <<>>
    /\ ssArgs = <<>> /\ ssRet = "nil" /\ ssN = 0

ExOff ==
    /\ exOn = FALSE /\ exLayType = "" /\ exExts = 0 /\ exNrn = <<>> /\ exN = 0

SymOff ==
    /\ symOn = FALSE /\ symPj = {} /\ symRpj = {} /\ symRSyns = <<>>
    /\ symPanic = FALSE /\ symDone = FALSE

BxOff ==
    /\ bxOn = FALSE /\ bxNRecv = <<>> /\ bxLayOff = {} /\ bxHadParams = FALSE
    /\ bxPrjns = <<>> /\ bxPrjnIdx = <<>> /\ bxSyPrjnIdx = <<>>
    /\ bxPanic = FALSE /\ bxDone = {}

RlOff ==
    /\ rlOn = FALSE /\ rlLayType = "" /\ rlDA = 0 /\ rlNrn = <<>> /\ rlN = 0

LateOff == SmOff /\ SsOff /\ ExOff /\ SymOff /\ BxOff /\ RlOff

EarlyOff == ErrOff /\ IoOff /\ GpuOff /\ ParOff /\ NrnOff /\ KinOff

MoreOff == EarlyOff /\ LateOff

(***************************************************************************)
(* Topology of the modelled projections (PrjnBase connection arrays).      *)
(* Syns is ordered by sending neuron; SendConIdx holds the receiving index *)
(* of each synapse.  Projection 1 is full, projection 2 is one-to-one.     *)
(***************************************************************************)
SendConN(p, si) == IF p = 1 THEN NRecv ELSE 1
SendConIdxStart(p, si) == IF p = 1 THEN si * NRecv ELSE si
SendConIdx(p, k) == IF p = 1 THEN k % NRecv ELSE k
\* Synapse.Wt scaled by GScale.Scale, in conductance units: the synapses of
\* sender si carry 2^si, so that a sum identifies the senders it holds.
SynWt(p, k) == IF p = 1 THEN 2 ^ (k \div NRecv) ELSE 2 ^ k
\* Neuron.SubPool of a receiving neuron: 0 in a layer without sub-pools
SubPool(ri) == IF NPools = 1 THEN 0 ELSE 1 + (ri % (NPools - 1))
Pools == 0 .. (NPools - 1)

(***************************************************************************)
(* ringidx.FIx: Idx(i) wraps Zi + i around Len, Shift(n) sets Zi = Idx(n). *)
(***************************************************************************)
GidxIdx(zi, len, i) == IF zi + i >= len THEN zi + i - len ELSE zi + i
GidxShift(zi, len, n) == GidxIdx(zi, len, n)

(***************************************************************************)
(* Prjn.SendSpike (prjn.go): the sending neuron sendIdx adds scale * Wt of *)
(* each of its synapses into the receiver's ring-buffer slot               *)
(* Gidx.Idx(Delay), and into the slot of the receiver's pool unless the    *)
(* projection is inhibitory.  b holds the projection's buffers.            *)
(***************************************************************************)
\* a send that writes the slot the next gather reads (Idx(0), not Idx(Delay))
SendSlotFront(p) == GidxIdx(Zi[p], Delay[p] + 1, 0)

\* currDelayIdx: "index in ringbuffer to put new values -- end of line"
SendSlot(p) == GidxIdx(Zi[p], Delay[p] + 1, Delay[p])

RECURSIVE SendSpikeSyns(_, _, _, _, _)
SendSpikeSyns(p, sendIdx, i, t, b) ==
    IF i >= SendConN(p, sendIdx) THEN b
    ELSE LET delayBufSize == Delay[p] + 1
             currDelayIdx == SendSlot(p)
             k == SendConIdxStart(p, sendIdx) + i
             recvIdx == SendConIdx(p, k)
             sv == SynWt(p, k)
             bi == recvIdx * delayBufSize + currDelayIdx
             pbi == SubPool(recvIdx) * delayBufSize + currDelayIdx
         IN SendSpikeSyns(p, sendIdx, i + 1, t,
              [g |-> [b.g EXCEPT ![bi] = @ + sv],
               pi |-> IF Inhib[p] THEN b.pi ELSE [b.pi EXCEPT ![pbi] = @ + sv],
               tg |-> [b.tg EXCEPT ![bi] = @ \cup {t}],
               inf |-> [b.inf EXCEPT ![recvIdx] = @ + sv]])

SendSpike(p, sendIdx, t, b) == SendSpikeSyns(p, sendIdx, 0, t, b)

\* the layer-level loop: every neuron that spiked sends, in index order
RECURSIVE SendSpikeLay(_, _, _, _)
SendSpikeLay(p, si, t, b) ==
    IF si >= NSend THEN b
    ELSE SendSpikeLay(p, si + 1, t,
                      IF Spike[si] = 0 THEN b ELSE SendSpike(p, si, t, b))

(***************************************************************************)
(* Prjn.PrjnGatherSpikes (prjn.go): reads the slot at Gidx.Zi of every     *)
(* receiving neuron into GVals[ri].GRaw and zeroes it, adds the pools'     *)
(* slots into Inhib.FFsRaw (excitatory projections only), then rotates the *)
(* ring by Gidx.Shift(1).  st holds the whole transmission state.          *)
(***************************************************************************)
GatherPools(p, ffs) ==
    LET sz == Delay[p] + 1
        zi == Zi[p]
    IN IF NPools = 1
       THEN [ffs EXCEPT ![0] = @ + PIBuf[p][zi]]
       ELSE [pl \in Pools |->
               IF pl = 0
               THEN ffs[0] + 2 * PIBuf[p][zi]
                    + LET RECURSIVE Sum(_)
                          Sum(n) == IF n = 0 THEN 0
                                    ELSE PIBuf[p][n * sz + zi] + Sum(n - 1)
                      IN Sum(NPools - 1)
               ELSE ffs[pl] + PIBuf[p][pl * sz + zi]]

GatherPIBuf(p) ==
    LET sz == Delay[p] + 1
        zi == Zi[p]
    IN IF Inhib[p] THEN PIBuf[p]
       ELSE [i \in DOMAIN PIBuf[p] |-> IF i % sz = zi THEN 0 ELSE PIBuf[p][i]]

GatherGRaw(p) == [ri \in Recvs |-> GBuf[p][ri * (Delay[p] + 1) + Zi[p]]]

\* a gather that reads the slot and leaves it as it was
GatherGBufKeep(p) == GBuf[p]

GatherGBuf(p) ==
    LET sz == Delay[p] + 1
    IN [i \in DOMAIN GBuf[p] |-> IF i % sz = Zi[p] THEN 0 ELSE GBuf[p][i]]

GatherZi(p) == GidxShift(Zi[p], Delay[p] + 1, 1)

\* history: the emission cycles read out of the slots at Zi, as lags
GatherLags(p) ==
    UNION { { cyc - t : t \in tagBuf[p][ri * (Delay[p] + 1) + Zi[p]] } : ri \in Recvs }

(***************************************************************************)
(* The network-level cycle, run as a single-threaded host loop: gather     *)
(* (every receiving projection), neuron update with the spike decision,    *)
(* send (every neuron that spiked), then the cycle counter advances.       *)
(***************************************************************************)
BufLen(p) == (Delay[p] + 1) * NRecv           \* BuildGBuffs: gblen = dl * rlen
PIBufLen(p) == (Delay[p] + 1) * NPools        \* BuildGBuffs: dl * npools

ZeroPools == [pl \in Pools |-> 0]
Idle == [k |-> "idle"]

TxInit ==
    /\ cyc = 0
    /\ phase = "gather"
    /\ Delay \in [Prjns -> 0 .. MaxDelay]
    /\ Inhib \in {[p \in Prjns |-> FALSE], [p \in Prjns |-> p = 2]}
    /\ NPools \in {1, 3}
    /\ Spike = [s \in Senders |-> 0]
    /\ Zi = [p \in Prjns |-> 0]
    /\ GBuf = [p \in Prjns |-> [i \in 0 .. (BufLen(p) - 1) |-> 0]]
    /\ PIBuf = [p \in Prjns |-> [i \in 0 .. (PIBufLen(p) - 1) |-> 0]]
    /\ GRaw = [p \in Prjns |-> [ri \in Recvs |-> 0]]
    /\ FFsRaw = ZeroPools
    /\ tagBuf = [p \in Prjns |-> [i \in 0 .. (BufLen(p) - 1) |-> {}]]
    /\ lags = [p \in Prjns |-> {}]
    /\ inflight = [p \in Prjns |-> [ri \in Recvs |-> 0]]
    /\ ffsSum = ZeroPools

\* the transmission models do not run the calcium model
CaOff ==
    /\ caCyc = 0 /\ caDone = {} /\ Learn = FALSE
    /\ SnSpike = <<>> /\ RnSpike = <<>> /\ SnCaSpk = <<>> /\ RnCaSpk = <<>>
    /\ CaSyns = <<>> /\ nUpd = <<>>

WtOff == wtCfg = <<>> /\ wtSyns = <<>> /\ AvgDif = 0 /\ wtN = 0 /\ wtHist = <<>>

BldOff ==
    /\ bldCon = <<>> /\ bldDelay = <<>> /\ bldDone = {} /\ Synapses = <<>>
    /\ SendSynIdxs = <<>> /\ PrjnIdxs = <<>> /\ NetMaxDelay = 0 /\ PrjnGBufN = <<>>
    /\ GidxLen = <<>> /\ GBufN = <<>>

Init == TxInit /\ thr = Idle /\ CaOff /\ WtOff /\ BldOff /\ MoreOff

\* Layer.GFmSpikes: PrjnGatherSpikes of every receiving projection, in order
GFmSpikes ==
    /\ phase = "gather"
    /\ GRaw' = [p \in Prjns |-> GatherGRaw(p)]
    /\ GBuf' = [p \in Prjns |-> GatherGBuf(p)]
    /\ PIBuf' = [p \in Prjns |-> GatherPIBuf(p)]
    /\ FFsRaw' = LET f1 == IF Inhib[1] THEN FFsRaw ELSE GatherPools(1, FFsRaw)
                 IN IF Inhib[2] THEN f1 ELSE GatherPools(2, f1)
    /\ ffsSum' = LET f1 == IF Inhib[1] THEN ZeroPools ELSE GatherPools(1, ZeroPools)
                 IN IF Inhib[2] THEN f1 ELSE GatherPools(2, f1)
    /\ Zi' = [p \in Prjns |-> GatherZi(p)]
    /\ lags' = [p \in Prjns |-> lags[p] \cup GatherLags(p)]
    /\ tagBuf' = [p \in Prjns |->
                    [i \in DOMAIN tagBuf[p] |->
                       IF i % (Delay[p] + 1) = Zi[p] THEN {} ELSE tagBuf[p][i]]]
    /\ inflight' = [p \in Prjns |-> [ri \in Recvs |-> inflight[p][ri] - GatherGRaw(p)[ri]]]
    /\ phase' = "cycle"
    /\ UNCHANGED <<cyc, Delay, Inhib, NPools, Spike, thr>>
    /\ UNCHANGED notTx

\* LayPoolGiFmSpikes consumes the pools' raw sums (Inhib.SpikesFmRaw zeroes
\* them); CycleNeuron then decides each neuron's Spike.
CycleNeuron ==
    /\ phase = "cycle"
    /\ FFsRaw' = ZeroPools
    /\ Spike' \in [Senders -> {0, 1}]
    /\ phase' = "send"
    /\ UNCHANGED <<cyc, Delay, Inhib, NPools, Zi, GBuf, PIBuf, GRaw,
                   tagBuf, lags, inflight, ffsSum, thr>>
    /\ UNCHANGED notTx

PrjnBufs(p) == [g |-> GBuf[p], pi |-> PIBuf[p], tg |-> tagBuf[p], inf |-> inflight[p]]

\* Layer.SendSpike: every spiking neuron sends over every projection; the
\* cycle counter then advances (Time.CycleInc).
SendSpikeAll ==
    /\ phase = "send"
    /\ cyc < MaxCycle
    /\ LET nb == [p \in Prjns |-> SendSpikeLay(p, 0, cyc, PrjnBufs(p))]
       IN /\ GBuf' = [p \in Prjns |-> nb[p].g]
          /\ PIBuf' = [p \in Prjns |-> nb[p].pi]
          /\ tagBuf' = [p \in Prjns |-> nb[p].tg]
          /\ inflight' = [p \in Prjns |-> nb[p].inf]
    /\ cyc' = cyc + 1
    /\ phase' = "gather"
    /\ UNCHANGED <<Delay, Inhib, NPools, Spike, Zi, GRaw, FFsRaw, lags, ffsSum, thr>>
    /\ UNCHANGED notTx

Next == GFmSpikes \/ CycleNeuron \/ SendSpikeAll

Spec == Init /\ [][Next]_vars

(***************************************************************************)
(* The same cycle run by the multi-threaded host: in the gather phase one  *)
(* thread per receiving projection runs PrjnGatherSpikes, in the send      *)
(* phase one thread per spiking neuron runs SendSpike, and a barrier ends  *)
(* each phase.  The Go statement x += v on shared memory is a load and a   *)
(* store with no synchronisation ("TODO: race condition" in both           *)
(* functions): each thread's load and store are separate steps.            *)
(***************************************************************************)
RaceMaxCycle == 1

\* the accumulations of PrjnGatherSpikes into the shared pools, in order
GatherOps(p) ==
    LET sz == Delay[p] + 1
    IN IF Inhib[p] THEN <<>>
       ELSE IF NPools = 1 THEN <<[pl |-> 0, bi |-> Zi[p]]>>
       ELSE LET RECURSIVE Ops(_)
                Ops(n) == IF n >= NPools THEN <<>>
                          ELSE <<[pl |-> n, bi |-> n * sz + Zi[p]],
                                 [pl |-> 0, bi |-> n * sz + Zi[p]]>> \o Ops(n + 1)
            IN Ops(0)

\* the accumulations of SendSpike of neuron si, over its projections in order
RECURSIVE SendOpsPrjn(_, _, _)
SendOpsPrjn(p, si, i) ==
    IF i >= SendConN(p, si) THEN <<>>
    ELSE LET k == SendConIdxStart(p, si) + i
             recvIdx == SendConIdx(p, k)
             g == [buf |-> "g", p |-> p, ri |-> recvIdx, sv |-> SynWt(p, k),
                   bi |-> recvIdx * (Delay[p] + 1) + SendSlot(p)]
             pi == [buf |-> "pi", p |-> p, ri |-> recvIdx, sv |-> SynWt(p, k),
                    bi |-> SubPool(recvIdx) * (Delay[p] + 1) + SendSlot(p)]
         IN (IF Inhib[p] THEN <<g>> ELSE <<g, pi>>) \o SendOpsPrjn(p, si, i + 1)

SendOps(si) == SendOpsPrjn(1, si, 0) \o SendOpsPrjn(2, si, 0)

NewThread == [i |-> 1, ld |-> FALSE, reg |-> 0, done |-> FALSE]
GatherThreads == [k |-> "gather", t |-> [p \in Prjns |-> NewThread]]
SendThreads(spk) == [k |-> "send", t |-> [si \in {s \in Senders : spk[s] = 1} |-> NewThread]]

RaceInit == TxInit /\ Delay = [p \in Prjns |-> 0] /\ thr = GatherThreads
            /\ CaOff /\ WtOff /\ BldOff /\ MoreOff

\* FFsRaw += PIBuf[bi], first half: load the pool's FFsRaw
RaceGatherLoad(p) ==
    /\ thr.k = "gather" /\ ~thr.t[p].done /\ ~thr.t[p].ld
    /\ thr.t[p].i <= Len(GatherOps(p))
    /\ LET op == GatherOps(p)[thr.t[p].i]
       IN thr' = [thr EXCEPT !.t[p].ld = TRUE, !.t[p].reg = FFsRaw[op.pl]]
    /\ UNCHANGED txVars
    /\ UNCHANGED notTx

\* second half: store the sum
RaceGatherStore(p) ==
    /\ thr.k = "gather" /\ ~thr.t[p].done /\ thr.t[p].ld
    /\ LET op == GatherOps(p)[thr.t[p].i]
       IN /\ FFsRaw' = [FFsRaw EXCEPT ![op.pl] = thr.t[p].reg + PIBuf[p][op.bi]]
          /\ ffsSum' = [ffsSum EXCEPT ![op.pl] = @ + PIBuf[p][op.bi]]
    /\ thr' = [thr EXCEPT !.t[p].ld = FALSE, !.t[p].i = @ + 1]
    /\ UNCHANGED <<cyc, phase, Delay, Inhib, NPools, Spike, Zi, GBuf, PIBuf, GRaw,
                   tagBuf, lags, inflight>>
    /\ UNCHANGED notTx

\* the rest of PrjnGatherSpikes touches only the projection's own state
RaceGatherRest(p) ==
    /\ thr.k = "gather" /\ ~thr.t[p].done /\ ~thr.t[p].ld
    /\ thr.t[p].i > Len(GatherOps(p))
    /\ GRaw' = [GRaw EXCEPT ![p] = GatherGRaw(p)]
    /\ GBuf' = [GBuf EXCEPT ![p] = GatherGBuf(p)]
    /\ PIBuf' = [PIBuf EXCEPT ![p] = GatherPIBuf(p)]
    /\ Zi' = [Zi EXCEPT ![p] = GatherZi(p)]
    /\ inflight' = [inflight EXCEPT ![p] = [ri \in Recvs |-> @[ri] - GatherGRaw(p)[ri]]]
    /\ thr' = [thr EXCEPT !.t[p].done = TRUE]
    /\ UNCHANGED <<cyc, phase, Delay, Inhib, NPools, Spike, FFsRaw, tagBuf, lags, ffsSum>>
    /\ UNCHANGED notTx

\* barrier after the gather phase
RaceGatherBarrier ==
    /\ thr.k = "gather" /\ \A p \in Prjns : thr.t[p].done
    /\ phase' = "cycle"
    /\ thr' = Idle
    /\ UNCHANGED <<cyc, Delay, Inhib, NPools, Spike, Zi, GBuf, PIBuf, GRaw, FFsRaw,
                   tagBuf, lags, inflight, ffsSum>>
    /\ UNCHANGED notTx

\* pool inhibition consumes FFsRaw, the neurons decide their spikes, and
\* the send phase starts with one thread per neuron that spiked
RaceCycleNeuron ==
    /\ phase = "cycle" /\ thr = Idle
    /\ cyc < RaceMaxCycle
    /\ FFsRaw' = ZeroPools
    /\ ffsSum' = ZeroPools
    /\ \E spk \in [Senders -> {0, 1}] :
          /\ Spike' = spk
          /\ thr' = SendThreads(spk)
    /\ phase' = "send"
    /\ UNCHANGED <<cyc, Delay, Inhib, NPools, Zi, GBuf, PIBuf, GRaw,
                   tagBuf, lags, inflight>>
    /\ UNCHANGED notTx

\* GBuf[bi] += sv or PIBuf[pbi] += sv, first half: load the slot
RaceSendLoad(si) ==
    /\ thr.k = "send" /\ si \in DOMAIN thr.t /\ ~thr.t[si].ld
    /\ thr.t[si].i <= Len(SendOps(si))
    /\ LET op == SendOps(si)[thr.t[si].i]
       IN thr' = [thr EXCEPT !.t[si].ld = TRUE,
                             !.t[si].reg = IF op.buf = "g" THEN GBuf[op.p][op.bi]
                                           ELSE PIBuf[op.p][op.bi]]
    /\ UNCHANGED txVars
    /\ UNCHANGED notTx

\* second half: store the sum
RaceSendStore(si) ==
    /\ thr.k = "send" /\ si \in DOMAIN thr.t /\ thr.t[si].ld
    /\ LET op == SendOps(si)[thr.t[si].i]
       IN IF op.buf = "g"
          THEN /\ GBuf' = [GBuf EXCEPT ![op.p][op.bi] = thr.t[si].reg + op.sv]
               /\ inflight' = [inflight EXCEPT ![op.p][op.ri] = @ + op.sv]
               /\ UNCHANGED PIBuf
          ELSE /\ PIBuf' = [PIBuf EXCEPT ![op.p][op.bi] = thr.t[si].reg + op.sv]
               /\ UNCHANGED <<GBuf, inflight>>
    /\ thr' = [thr EXCEPT !.t[si].ld = FALSE, !.t[si].i = @ + 1]
    /\ UNCHANGED <<cyc, phase, Delay, Inhib, NPools, Spike, Zi, GRaw, FFsRaw,
                   tagBuf, lags, ffsSum>>
    /\ UNCHANGED notTx

\* barrier after the send phase; the cycle counter advances
RaceSendBarrier ==
    /\ thr.k = "send"
    /\ \A si \in DOMAIN thr.t : ~thr.t[si].ld /\ thr.t[si].i > Len(SendOps(si))
    /\ cyc' = cyc + 1
    /\ phase' = "gather"
    /\ thr' = GatherThreads
    /\ UNCHANGED <<Delay, Inhib, NPools, Spike, Zi, GBuf, PIBuf, GRaw, FFsRaw,
                   tagBuf, lags, inflight, ffsSum>>
    /\ UNCHANGED notTx

RaceNext ==
    \/ \E p \in Prjns : RaceGatherLoad(p) \/ RaceGatherStore(p) \/ RaceGatherRest(p)
    \/ RaceGatherBarrier
    \/ RaceCycleNeuron
    \/ \E si \in Senders : RaceSendLoad(si) \/ RaceSendStore(si)
    \/ RaceSendBarrier

SpecRace == RaceInit /\ [][RaceNext]_vars

(***************************************************************************)
(* Claims about the single-threaded cycle (Spec).                          *)
(***************************************************************************)
RECURSIVE SlotSum(_, _, _)
SlotSum(p, ri, k) ==
    IF k < 0 THEN 0 ELSE GBuf[p][ri * (Delay[p] + 1) + k] + SlotSum(p, ri, k - 1)

C2_DeliveredOnce ==
    \A p \in Prjns : \A ri \in Recvs :
        /\ inflight[p][ri] = SlotSum(p, ri, Delay[p])
        /\ phase = "cycle" =>
             LET read == GidxIdx(Zi[p], Delay[p] + 1, Delay[p])
             IN /\ GBuf[p][ri * (Delay[p] + 1) + read] = 0
                /\ tagBuf[p][ri * (Delay[p] + 1) + read] = {}

\* a gather step has just delivered the contributions of both senders from
\* a slot that was used before, while a later spike is still in the buffer
C2_Witness ==
    \E p \in Prjns : \E ri \in Recvs :
        /\ phase = "cycle" /\ cyc >= 4 /\ Delay[p] = 1
        /\ GRaw[p][ri] = 3 /\ inflight[p][ri] > 0

(***************************************************************************)
(* Claims about the multi-threaded cycle (SpecRace).                       *)
(***************************************************************************)
\* C3: when the send phase has ended, every receiver's ring buffer holds
\* the sum of all the scaled weights the senders added to it: no
\* contribution of two senders that share a receiver is lost.
C3_ConcurrentSendsSum ==
    (thr.k = "gather" /\ \A p \in Prjns : thr.t[p].i = 1 /\ ~thr.t[p].ld /\ ~thr.t[p].done)
      => \A p \in Prjns : \A ri \in Recvs : SlotSum(p, ri, Delay[p]) = inflight[p][ri]

\* C4: when the gather phase has ended, each pool's FFsRaw is the sum of
\* the pool slots that all the receiving projections read in this cycle.
C4_ConcurrentGathersSum ==
    phase = "cycle" => \A pl \in Pools : FFsRaw[pl] = ffsSum[pl]

(***************************************************************************)
(* Synaptic calcium (prjn.go, SynCa methods).  The model follows the       *)
(* synapses of the full projection, in sender order as in pj.Syns.         *)
(* Calcium values are integers; the rate constants MDt, PDt, DDt are 1/2.  *)
(***************************************************************************)
MaxCaCycle == 3     \* cycles the calcium model runs after cycle 0
UpdtThr == 1        \* kp.UpdtThr, in the units of CaSpkP and CaSpkD
CaSynProd == 4      \* snCaSyn * rn.CaSyn of two neurons above threshold

LrnPrjn == CHOOSE p \in Prjns : \A si \in Senders : SendConN(p, si) = NRecv
SynIds == 0 .. (NSend * NRecv - 1)
\* the sending neuron whose block of pj.Syns holds synapse k
SendOf(p, k) ==
    CHOOSE si \in Senders :
        SendConIdxStart(p, si) <= k /\ k < SendConIdxStart(p, si) + SendConN(p, si)

\* the receiver-side connection arrays of the projections
RecvConN(p, ri) == IF p = 1 THEN NSend ELSE 1
RecvConIdxStart(p, ri) == IF p = 1 THEN ri * NSend ELSE ri
RecvConIdx(p, j) == IF p = 1 THEN j % NSend ELSE j
RecvSynIdx(p, j) == IF p = 1 THEN (j % NSend) * NRecv + (j \div NSend) ELSE j

\* kp.FmCa: the cascade of three running averages driven by ca
FmCa(ca, sy) ==
    LET caM == sy.CaM + (ca - sy.CaM) \div 2
        caP == sy.CaP + (caM - sy.CaP) \div 2
        caD == sy.CaD + (caP - sy.CaD) \div 2
    IN [sy EXCEPT !.CaM = caM, !.CaP = caP, !.CaD = caD]

\* kp.CurCa: decay over the cycles since the last update, up to ctime
RECURSIVE CurCa(_, _, _)
CurCa(ctime, utime, sy) ==
    IF ctime - utime <= 0 THEN sy ELSE CurCa(ctime - 1, utime, FmCa(0, sy))

\* a neuron whose CaSpkP and CaSpkD are both below kp.UpdtThr is skipped
BelowThr(n) == n.P < UpdtThr /\ n.D < UpdtThr

\* a stamp test that never finds the synapse updated
StampIgnored(supt, cycTot) == FALSE

\* supt == cycTot: "already updated in sender pass"
AlreadyUpdated(supt, cycTot) == supt = cycTot

\* a spike test that skips no neuron
SpikeIgnored(spike) == FALSE

\* sn.Spike == 0 / rn.Spike == 0: the pass filters on the neuron's spike
NoSpike(spike) == spike = 0

\* the body of both passes for one synapse; st = [syns, n] holds pj.Syns and
\* the count of updates
SynCaUpdt(st, k, cycTot) ==
    LET sy == st.syns[k]
        supt == sy.CaUpT
    IN IF AlreadyUpdated(supt, cycTot) THEN st
       ELSE LET cur == CurCa(cycTot - 1, supt, [sy EXCEPT !.CaUpT = cycTot])
                new == FmCa(CaSynProd, [cur EXCEPT !.Ca = CaSynProd])
            IN [syns |-> [st.syns EXCEPT ![k] = new],
                n |-> [st.n EXCEPT ![k] = @ + 1]]

\* Prjn.SendSynCa: sending order, filtering on the sending spike
RECURSIVE SendSynCaLoop(_, _, _, _)
SendSynCaLoop(p, si, ci, st) ==
    IF si >= NSend THEN st
    ELSE IF NoSpike(SnSpike[si]) \/ BelowThr(SnCaSpk[si]) \/ ci >= SendConN(p, si)
    THEN SendSynCaLoop(p, si + 1, 0, st)
    ELSE LET k == SendConIdxStart(p, si) + ci
             ri == SendConIdx(p, k)
         IN SendSynCaLoop(p, si, ci + 1,
                IF BelowThr(RnCaSpk[ri]) THEN st ELSE SynCaUpdt(st, k, caCyc))

\* Prjn.RecvSynCa: receiving order, filtering on the receiving spike
RECURSIVE RecvSynCaLoop(_, _, _, _)
RecvSynCaLoop(p, ri, ci, st) ==
    IF ri >= NRecv THEN st
    ELSE IF NoSpike(RnSpike[ri]) \/ BelowThr(RnCaSpk[ri]) \/ ci >= RecvConN(p, ri)
    THEN RecvSynCaLoop(p, ri + 1, 0, st)
    ELSE LET j == RecvConIdxStart(p, ri) + ci
             rsi == RecvSynIdx(p, j)
             si == RecvConIdx(p, j)
         IN RecvSynCaLoop(p, ri, ci + 1,
                IF BelowThr(SnCaSpk[si]) THEN st ELSE SynCaUpdt(st, rsi, caCyc))

CaSpkLo == [P |-> 0, D |-> 0]
CaSpkHi == [P |-> 2, D |-> 1]
NewSyn == [CaUpT |-> -1, Ca |-> 0, CaM |-> 0, CaP |-> 0, CaD |-> 0]

TxOff ==
    /\ cyc = 0 /\ phase = "off" /\ Delay = <<>> /\ Inhib = <<>> /\ NPools = 1
    /\ Spike = <<>> /\ Zi = <<>> /\ GBuf = <<>> /\ PIBuf = <<>> /\ GRaw = <<>>
    /\ FFsRaw = <<>> /\ tagBuf = <<>> /\ lags = <<>> /\ inflight = <<>> /\ ffsSum = <<>>
    /\ thr = Idle

CaInit ==
    /\ caCyc = 0
    /\ caDone = {}
    /\ Learn \in BOOLEAN
    /\ SnSpike \in [Senders -> {0, 1}]
    /\ RnSpike \in [Recvs -> {0, 1}]
    /\ \E q \in {"none", "send", "recv"} :
          /\ SnCaSpk = [si \in Senders |-> IF q = "send" /\ si = 0 THEN CaSpkLo ELSE CaSpkHi]
          /\ RnCaSpk = [ri \in Recvs |-> IF q = "recv" /\ ri = 1 THEN CaSpkLo ELSE CaSpkHi]
    /\ CaSyns = [k \in SynIds |-> NewSyn]
    /\ nUpd = [k \in SynIds |-> 0]

InitCa == CaInit /\ TxOff /\ WtOff /\ BldOff /\ MoreOff

SendSynCa ==
    /\ "send" \notin caDone
    /\ LET st == IF ~Learn THEN [syns |-> CaSyns, n |-> nUpd]
                 ELSE SendSynCaLoop(LrnPrjn, 0, 0, [syns |-> CaSyns, n |-> nUpd])
       IN CaSyns' = st.syns /\ nUpd' = st.n
    /\ caDone' = caDone \cup {"send"}
    /\ UNCHANGED <<caCyc, Learn, SnSpike, RnSpike, SnCaSpk, RnCaSpk>>
    /\ UNCHANGED notCa

RecvSynCa ==
    /\ "recv" \notin caDone
    /\ LET st == IF ~Learn THEN [syns |-> CaSyns, n |-> nUpd]
                 ELSE RecvSynCaLoop(LrnPrjn, 0, 0, [syns |-> CaSyns, n |-> nUpd])
       IN CaSyns' = st.syns /\ nUpd' = st.n
    /\ caDone' = caDone \cup {"recv"}
    /\ UNCHANGED <<caCyc, Learn, SnSpike, RnSpike, SnCaSpk, RnCaSpk>>
    /\ UNCHANGED notCa

\* the next cycle: the neurons decide their spikes, CycleTot advances
CaCycleNeuron ==
    /\ caDone = {"send", "recv"}
    /\ caCyc < MaxCaCycle
    /\ caCyc' = caCyc + 1
    /\ caDone' = {}
    /\ SnSpike' \in [Senders -> {0, 1}]
    /\ RnSpike' \in [Recvs -> {0, 1}]
    /\ nUpd' = [k \in SynIds |-> 0]
    /\ UNCHANGED <<Learn, SnCaSpk, RnCaSpk, CaSyns>>
    /\ UNCHANGED notCa

NextCa == SendSynCa \/ RecvSynCa \/ CaCycleNeuron

SpecCa == InitCa /\ [][NextCa]_vars

(***************************************************************************)
(* Claims about the synaptic calcium passes (SpecCa).                      *)
(***************************************************************************)
\* C5: within one cycle the calcium state of a synapse is advanced at most
\* once, whichever of its two neurons spike and whichever pass runs first.
C5_AdvancedAtMostOnce == \A k \in DOMAIN nUpd : nUpd[k] <= 1

\* both passes have run in a cycle in which both neurons of a synapse spiked,
\* and the synapse was advanced once
C5_Witness ==
    /\ caDone = {"send", "recv"}
    /\ \E k \in DOMAIN nUpd :
          /\ SnSpike[SendOf(LrnPrjn, k)] = 1
          /\ RnSpike[SendConIdx(LrnPrjn, k)] = 1
          /\ nUpd[k] = 1

\* C6: a pass that runs in a cycle in which neither the sending nor the
\* receiving neuron of a synapse spikes leaves that synapse's Ca, CaM, CaP,
\* CaD and CaUpT as they were.
C6_NoSpikeNoChange ==
    [][\A k \in DOMAIN CaSyns :
          (SnSpike[SendOf(LrnPrjn, k)] = 0 /\ RnSpike[SendConIdx(LrnPrjn, k)] = 0)
             => CaSyns'[k] = CaSyns[k]]_vars

\* both passes have run; a synapse that carries calcium from an earlier cycle
\* kept it while its neurons were silent and another synapse was advanced
C6_Witness ==
    /\ caDone = {"send", "recv"}
    /\ \E k, k2 \in DOMAIN CaSyns :
          /\ SnSpike[SendOf(LrnPrjn, k)] = 0
          /\ RnSpike[SendConIdx(LrnPrjn, k)] = 0
          /\ CaSyns[k].CaM > 0 /\ CaSyns[k].CaUpT < caCyc
          /\ nUpd[k2] = 1

(***************************************************************************)
(* Weight update and slow adaptation (prjn.go WtFmDWt; prjn_compute.go     *)
(* SlowAdapt, SWtFmWt, SynScale).  The model follows a projection from the *)
(* sending layer onto one receiving neuron: one synapse per sender, all of *)
(* them afferents of that neuron.  float32 values are fixed-point integers *)
(* in units of 1/One; a product is truncated towards zero, so a change     *)
(* below the resolution is lost as it is in float32.                       *)
(***************************************************************************)
MaxWtSteps == 3     \* learning handlers that are run
One == 8            \* the value 1.0
SWtMin == 2         \* pj.Params.SWt.Limit.Min
SWtMax == 6         \* pj.Params.SWt.Limit.Max
SWtLRate == 2       \* pj.Params.SWt.Adapt.LRate, but for one configuration with 1
SynScaleRate == 4   \* rlay.Params.Learn.TrgAvgAct.SynScaleRate

WtSynIds == Senders
\* sy.DWt as the DWt pass leaves it, and nrn.AvgDif as AvgDifFmTrgAvg does
DWtVals == {-(One + 1), 0, One + 1}
AvgDifVals == {-3 * One, 0, 1, One, 3 * One}

TruncDiv(a, b) == IF a >= 0 THEN a \div b ELSE -((-a) \div b)
Mul(a, b) == TruncDiv(a * b, One)
Clip01(x) == IF x < 0 THEN 0 ELSE IF x > One THEN One ELSE x

\* SWtParams.WtVal: swt * SigFmLinWt(lwt), with the linear sigmoid 2 * lwt
WtVal(swt, lwt) == Mul(swt, 2 * Clip01(lwt))
\* SWtParams.LWtFmWts: LinFmSigWt(wt / swt).  The float32 quotient by an swt
\* of 0 is an infinity, which clips to 1 (0 / 0 is taken as 0); a negative
\* swt changes the sign of the quotient.
LWtFmWts(wt, swt) ==
    IF swt = 0 THEN (IF wt > 0 THEN One ELSE 0)
    ELSE IF swt < 0 THEN Clip01(TruncDiv(-(wt * One), 2 * (-swt)))
    ELSE Clip01(TruncDiv(wt * One, 2 * swt))

\* SWtParams.WtFmDWt: commits DWt into LWt, clipped to [0, 1]
SWtWtFmDWt(sy) ==
    IF sy.DWt = 0
    THEN IF sy.Wt = 0 THEN [sy EXCEPT !.Wt = WtVal(sy.SWt, sy.LWt)] ELSE sy
    ELSE LET lwt == Clip01(sy.LWt + sy.DWt)
         IN [sy EXCEPT !.LWt = lwt, !.Wt = WtVal(sy.SWt, lwt), !.DWt = 0]

\* SynComParams.Fail: a synapse that fails has its Wt set to 0
ComFail(sy, fails) == IF wtCfg.Fail /\ sy.Wt > 0 /\ fails THEN [sy EXCEPT !.Wt = 0] ELSE sy

\* Prjn.WtFmDWt, for one synapse
WtFmDWtSyn(sy, fails) ==
    ComFail(SWtWtFmDWt([sy EXCEPT !.DSWt = @ + sy.DWt]), fails)

RECURSIVE SumOver(_, _)
SumOver(f, n) == IF n = 0 THEN 0 ELSE f[n - 1] + SumOver(f, n - 1)
SumWt(syns) == SumOver([k \in WtSynIds |-> syns[k].Wt], NSend)

\* Prjn.SWtFmWt, for the receiving neuron's synapses
SWtFmWt(syns) ==
    IF ~wtCfg.Learn \/ ~wtCfg.AdaptOn \/ wtCfg.IsTarget THEN syns
    ELSE LET soft == [k \in WtSynIds |->
                        IF syns[k].DSWt >= 0
                        THEN Mul(syns[k].DSWt, SWtMax - syns[k].SWt)
                        ELSE Mul(syns[k].DSWt, syns[k].SWt - SWtMin)]
             avgDWt == TruncDiv(SumOver(soft, NSend), NSend)
         IN [k \in WtSynIds |->
               LET swt == syns[k].SWt + Mul(wtCfg.LRate, soft[k] - avgDWt)
                   wt == IF syns[k].Wt = 0 THEN WtVal(swt, syns[k].LWt) ELSE syns[k].Wt
                   lwt == LWtFmWts(wt, swt)
               IN [syns[k] EXCEPT !.SWt = swt, !.DSWt = 0, !.LWt = lwt,
                                  !.Wt = WtVal(swt, lwt)]]

\* a scaling that moves the weights with the activity difference
ScaleDirFlipped(lr, avgDif) == Mul(lr, avgDif)

\* adif := -lr * nrn.AvgDif
ScaleDir(lr, avgDif) == -Mul(lr, avgDif)

\* Prjn.SynScale, for the receiving neuron's synapses
SynScale(syns, avgDif) ==
    IF ~wtCfg.Learn \/ wtCfg.IsInhib \/ ~wtCfg.IsLearnTrgAvg \/ wtCfg.IsOff THEN syns
    ELSE LET adif == ScaleDir(SynScaleRate, avgDif)
         IN [k \in WtSynIds |->
               LET sy == syns[k]
                   lwt == IF adif >= 0
                          THEN sy.LWt + Mul(Mul(One - sy.LWt, adif), sy.SWt)
                          ELSE sy.LWt + Mul(Mul(sy.LWt, adif), sy.SWt)
               IN [sy EXCEPT !.LWt = lwt, !.Wt = WtVal(sy.SWt, lwt)]]

WtCfgBase ==
    [Learn |-> TRUE, IsInhib |-> FALSE, IsLearnTrgAvg |-> TRUE, IsTarget |-> FALSE,
     IsOff |-> FALSE, Fail |-> FALSE, AdaptOn |-> TRUE, LRate |-> SWtLRate]
WtCfgs ==
    {WtCfgBase,
     [WtCfgBase EXCEPT !.Learn = FALSE],
     [WtCfgBase EXCEPT !.IsInhib = TRUE],
     [WtCfgBase EXCEPT !.IsLearnTrgAvg = FALSE, !.IsTarget = TRUE],
     [WtCfgBase EXCEPT !.IsOff = TRUE],
     [WtCfgBase EXCEPT !.Fail = TRUE],
     [WtCfgBase EXCEPT !.AdaptOn = FALSE],
     [WtCfgBase EXCEPT !.LRate = One]}

\* InitWts: SWt differs between the synapses, LWt = 0.5, Wt = WtVal(SWt, LWt)
WtInit ==
    /\ wtCfg \in WtCfgs
    /\ wtSyns = [k \in WtSynIds |->
                   LET swt == IF k = 0 THEN One \div 2 ELSE SWtMax
                   IN [Wt |-> WtVal(swt, One \div 2), LWt |-> One \div 2, SWt |-> swt,
                       DWt |-> 0, DSWt |-> 0]]
    /\ AvgDif = 0
    /\ wtN = 0
    /\ wtHist = <<>>

InitWt == WtInit /\ TxOff /\ CaOff /\ BldOff /\ MoreOff

\* the DWt pass leaves a delta in every synapse (none if the projection does
\* not learn); Prjn.WtFmDWt commits it
WtFmDWt ==
    /\ wtN < MaxWtSteps
    /\ \E d \in [WtSynIds -> IF wtCfg.Learn THEN DWtVals ELSE {0}] :
       \E f \in [WtSynIds -> IF wtCfg.Fail THEN BOOLEAN ELSE {FALSE}] :
          wtSyns' = [k \in WtSynIds |-> WtFmDWtSyn([wtSyns[k] EXCEPT !.DWt = d[k]], f[k])]
    /\ wtN' = wtN + 1
    /\ UNCHANGED <<wtCfg, AvgDif, wtHist>>
    /\ UNCHANGED notWt

\* AvgDifFmTrgAvg sets the neuron's AvgDif; Prjn.SlowAdapt then runs SWtFmWt
\* and SynScale
SlowAdapt ==
    /\ wtN < MaxWtSteps
    /\ \E a \in AvgDifVals :
          /\ AvgDif' = a
          /\ wtSyns' = SynScale(SWtFmWt(wtSyns), a)
          /\ wtHist' = Append(wtHist, [dif |-> a, sum |-> SumWt(wtSyns')])
    /\ wtN' = wtN + 1
    /\ UNCHANGED wtCfg
    /\ UNCHANGED notWt

NextWt == WtFmDWt \/ SlowAdapt

SpecWt == InitWt /\ [][NextWt]_vars

(***************************************************************************)
(* Claims about the weight update and slow adaptation (SpecWt).            *)
(***************************************************************************)
\* C7: after any sequence of WtFmDWt and SynScale (SlowAdapt) calls the
\* linear weight LWt of every synapse is within [0, 1].
C7_LWtInUnit == \A k \in DOMAIN wtSyns : 0 <= wtSyns[k].LWt /\ wtSyns[k].LWt <= One

NoneFailed == \A k \in DOMAIN wtSyns : wtSyns[k].Wt = 0 => wtSyns[k].LWt <= 0

C26_SWtWithinLimits ==
    \A k \in DOMAIN wtSyns : SWtMin <= wtSyns[k].SWt /\ wtSyns[k].SWt <= SWtMax

(***************************************************************************)
(* Network build (networkbase.go Build, BuildPrjnGBuf; prjn.go             *)
(* BuildGBuffs).  The built network has three layers and three             *)
(* projections: 1 from layer 0 to layer 1, 2 from layer 0 to layer 2 and   *)
(* 3 from layer 1 to layer 2; layer 2 receives 3 before 2.                 *)
(***************************************************************************)
BldLayers == <<0, 1, 2>>
BldPrjns == {1, 2, 3}
LayN(l) == IF l = 2 THEN 1 ELSE 2                      \* len(ly.Neurons)
NeurStIdx(l) == IF l = 0 THEN 0 ELSE IF l = 1 THEN LayN(0) ELSE LayN(0) + LayN(1)
PSend(p) == IF p = 3 THEN 1 ELSE 0                     \* pj.Send
PRecv(p) == IF p = 1 THEN 1 ELSE 2                     \* pj.Recv
RcvPrjns(l) == IF l = 1 THEN <<1>> ELSE IF l = 2 THEN <<3, 2>> ELSE <<>>
SndPrjns(l) == IF l = 0 THEN <<1, 2>> ELSE IF l = 1 THEN <<3>> ELSE <<>>

RECURSIVE AscSeq(_)
AscSeq(S) ==
    IF S = {} THEN <<>>
    ELSE LET m == CHOOSE x \in S : \A y \in S : x <= y
         IN <<m>> \o AscSeq(S \ {m})

\* the projection's connection arrays (PrjnBase), derived from its pattern:
\* pj.RecvConIdx of neuron ri, the sending indexes in ascending order
BldRecvConIdx(p, ri) ==
    AscSeq({si \in 0 .. (LayN(PSend(p)) - 1) : <<si, ri>> \in bldCon[p]})
\* pj.RecvCon[ri].Start
RECURSIVE BldRecvConStart(_, _)
BldRecvConStart(p, ri) ==
    IF ri = 0 THEN 0 ELSE BldRecvConStart(p, ri - 1) + Len(BldRecvConIdx(p, ri - 1))
\* the place of the synapse si -> ri in pj.Syns, which is in receiver order
BldSynOf(p, si, ri) ==
    BldRecvConStart(p, ri)
      + Cardinality({s \in 0 .. (si - 1) : <<s, ri>> \in bldCon[p]})
\* pj.SendSynIdxs(si): the places in pj.Syns of the synapses neuron si sends
BldSendSynIdxs(p, si) ==
    LET rs == AscSeq({ri \in 0 .. (LayN(PRecv(p)) - 1) : <<si, ri>> \in bldCon[p]})
    IN [j \in 1 .. Len(rs) |-> BldSynOf(p, si, rs[j])]
\* pj.SendCon[si].Start
RECURSIVE BldSendConStart(_, _)
BldSendConStart(p, si) ==
    IF si = 0 THEN 0 ELSE BldSendConStart(p, si - 1) + Len(BldSendSynIdxs(p, si - 1))

\* NetworkBase.Build, "distribute synapses, recv": st = [syns, idxs, pjidx]
RECURSIVE DistributeRecv(_, _, _, _)
DistributeRecv(li, pi, ri, st) ==
    IF li > Len(BldLayers) THEN st
    ELSE LET ly == BldLayers[li]
         IN IF pi > Len(RcvPrjns(ly)) THEN DistributeRecv(li + 1, 1, 0, st)
            ELSE LET pj == RcvPrjns(ly)[pi]
                     sidx == Len(st.syns)
                     s1 == IF ri > 0 THEN st
                           ELSE [st EXCEPT !.idxs[pj].SynapseSt = sidx,
                                           !.idxs[pj].PrjnIdx = st.pjidx]
                     rcon == BldRecvConIdx(pj, ri)
                     syns == [ci \in 1 .. Len(rcon) |->
                                [SynIdx |-> sidx + ci - 1,
                                 RecvIdx |-> ri + NeurStIdx(ly),
                                 SendIdx |-> rcon[ci] + NeurStIdx(PSend(pj)),
                                 PrjnIdx |-> st.pjidx]]
                 IN IF ri >= LayN(ly)
                    THEN DistributeRecv(li, pi + 1, 0, [st EXCEPT !.pjidx = @ + 1])
                    ELSE DistributeRecv(li, pi, ri + 1, [s1 EXCEPT !.syns = @ \o syns])

\* an entry that is the synapse's place in its own projection
SendEntryLocal(syns, synSt, ssi) == ssi

\* sy := &pj.Syns[ssi]; nt.SendSynIdxs[sidx] = sy.SynIdx
SendEntry(syns, synSt, ssi) == syns[synSt + ssi + 1].SynIdx

\* NetworkBase.Build, "update sending synapse / prjn info": st = [tbl, idxs]
RECURSIVE DistributeSend(_, _, _, _, _)
DistributeSend(li, pi, si, syns, st) ==
    IF li > Len(BldLayers) THEN st
    ELSE LET ly == BldLayers[li]
         IN IF pi > Len(SndPrjns(ly)) THEN DistributeSend(li + 1, 1, 0, syns, st)
            ELSE LET pj == SndPrjns(ly)[pi]
                     s1 == IF si > 0 THEN st
                           ELSE [st EXCEPT !.idxs[pj].SendSynSt = Len(st.tbl)]
                     sidxs == BldSendSynIdxs(pj, si)
                     ents == [j \in 1 .. Len(sidxs) |->
                                SendEntry(syns, st.idxs[pj].SynapseSt, sidxs[j])]
                 IN IF si >= LayN(ly)
                    THEN DistributeSend(li, pi + 1, 0, syns, st)
                    ELSE DistributeSend(li, pi, si + 1, syns, [s1 EXCEPT !.tbl = @ \o ents])

NoIdxs == [p \in BldPrjns |-> [PrjnIdx |-> 0, SynapseSt |-> 0, SendSynSt |-> 0]]

\* the projections in the order BuildPrjnGBuf visits them
AllRcvPrjns == RcvPrjns(0) \o RcvPrjns(1) \o RcvPrjns(2)

\* a maximum that looks at the first projection only
FirstPrjnDelay == bldDelay[AllRcvPrjns[1]]

\* nt.MaxDelay: the largest Com.MaxDelay of any projection of the network
RECURSIVE MaxDelayLoop(_, _)
MaxDelayLoop(i, mx) ==
    IF i > Len(AllRcvPrjns) THEN mx
    ELSE MaxDelayLoop(i + 1, IF bldDelay[AllRcvPrjns[i]] > mx
                             THEN bldDelay[AllRcvPrjns[i]] ELSE mx)
BuildMaxDelay == MaxDelayLoop(1, 0)

BldInit ==
    /\ bldCon \in [BldPrjns -> SUBSET ((0 .. 1) \X (0 .. 1))]
    /\ \A p \in BldPrjns :
          /\ bldCon[p] \subseteq (0 .. (LayN(PSend(p)) - 1)) \X (0 .. (LayN(PRecv(p)) - 1))
          /\ p # 1 => bldCon[p] # {}
    /\ bldDelay \in [BldPrjns -> 0 .. MaxDelay]
    /\ bldDone = {}
    /\ Synapses = <<>>
    /\ SendSynIdxs = <<>>
    /\ PrjnIdxs = NoIdxs
    /\ NetMaxDelay = 0
    /\ PrjnGBufN = [p \in BldPrjns |-> 0]
    /\ GidxLen = [p \in BldPrjns |-> 0]
    /\ GBufN = [p \in BldPrjns |-> 0]

InitBuild == BldInit /\ TxOff /\ CaOff /\ WtOff /\ MoreOff

\* NetworkBase.Build: lays out nt.Synapses and nt.SendSynIdxs
Build ==
    /\ bldDone = {}
    /\ LET r == DistributeRecv(1, 1, 0, [syns |-> <<>>, idxs |-> NoIdxs, pjidx |-> 0])
           sn == DistributeSend(1, 1, 0, r.syns, [tbl |-> <<>>, idxs |-> r.idxs])
       IN /\ Synapses' = r.syns
          /\ SendSynIdxs' = sn.tbl
          /\ PrjnIdxs' = sn.idxs
    /\ bldDone' = {"Build"}
    /\ UNCHANGED <<bldCon, bldDelay, NetMaxDelay, PrjnGBufN, GidxLen, GBufN>>
    /\ UNCHANGED notBld

\* NetworkBase.BuildPrjnGBuf: sizes the network-wide buffer and slices it
BuildPrjnGBuf ==
    /\ "Build" \in bldDone /\ "PrjnGBuf" \notin bldDone
    /\ NetMaxDelay' = BuildMaxDelay
    /\ LET mxlen == NetMaxDelay' + 1
       IN PrjnGBufN' = [p \in BldPrjns |-> LayN(PRecv(p)) * mxlen]
    /\ bldDone' = bldDone \cup {"PrjnGBuf"}
    /\ UNCHANGED <<bldCon, bldDelay, Synapses, SendSynIdxs, PrjnIdxs, GidxLen, GBufN>>
    /\ UNCHANGED notBld

\* Prjn.BuildGBuffs of projection p
BuildGBuffs(p) ==
    /\ "Build" \in bldDone /\ GidxLen[p] = 0
    /\ LET rlen == LayN(PRecv(p))
           dl == bldDelay[p] + 1
       IN /\ GidxLen' = [GidxLen EXCEPT ![p] = dl]
          /\ GBufN' = [GBufN EXCEPT ![p] = dl * rlen]
    /\ UNCHANGED <<bldCon, bldDelay, bldDone, Synapses, SendSynIdxs, PrjnIdxs,
                   NetMaxDelay, PrjnGBufN>>
    /\ UNCHANGED notBld

NextBuild == Build \/ BuildPrjnGBuf \/ \E p \in BldPrjns : BuildGBuffs(p)

SpecBuild == InitBuild /\ [][NextBuild]_vars

(***************************************************************************)
(* Claims about the network build (SpecBuild).                             *)
(***************************************************************************)
\* C9: after Build, SendSynIdxs lists every index of Synapses exactly once,
\* and every entry in the block of a sending neuron is the index of a
\* synapse that records that neuron as its sender (and the block's
\* projection as its projection).
C9_OrderingsConsistent ==
    "Build" \in bldDone =>
      /\ Len(SendSynIdxs) = Len(Synapses)
      /\ \A n \in 0 .. (Len(Synapses) - 1) :
            /\ Synapses[n + 1].SynIdx = n
            /\ Cardinality({i \in DOMAIN SendSynIdxs : SendSynIdxs[i] = n}) = 1
      /\ \A li \in DOMAIN BldLayers :
         \A pi \in DOMAIN SndPrjns(BldLayers[li]) :
         \A si \in 0 .. (LayN(BldLayers[li]) - 1) :
            LET pj == SndPrjns(BldLayers[li])[pi]
                st == PrjnIdxs[pj].SendSynSt + BldSendConStart(pj, si)
            IN \A j \in 1 .. Len(BldSendSynIdxs(pj, si)) :
                  LET sy == Synapses[SendSynIdxs[st + j] + 1]
                  IN /\ sy.SendIdx = si + NeurStIdx(BldLayers[li])
                     /\ sy.PrjnIdx = PrjnIdxs[pj].PrjnIdx

\* a network of at least five synapses is built, and its two orderings differ
C9_Witness ==
    /\ "Build" \in bldDone
    /\ Len(Synapses) >= 5
    /\ \E i \in DOMAIN SendSynIdxs : SendSynIdxs[i] # i - 1

\* the largest delay of the projections that layer l receives
LayerMaxDelay(l) ==
    LET ds == {bldDelay[q] : q \in {r \in BldPrjns : PRecv(r) = l}}
    IN CHOOSE d \in ds : \A e \in ds : e <= d
NetworkMaxDelay ==
    LET ds == {bldDelay[q] : q \in BldPrjns}
    IN CHOOSE d \in ds : \A e \in ds : e <= d

\* C10 as stated: the ring buffer of each projection has (largest delay of
\* the projections feeding its receiving layer) + 1 slots per receiving
\* neuron, in the network-wide buffer and in the projection's own buffer.
C10_LayerMaxPlusOne ==
    \A p \in DOMAIN PrjnGBufN :
        /\ "PrjnGBuf" \in bldDone =>
              PrjnGBufN[p] = LayN(PRecv(p)) * (LayerMaxDelay(PRecv(p)) + 1)
        /\ GidxLen[p] > 0 => GidxLen[p] = LayerMaxDelay(PRecv(p)) + 1

\* C10 amended: the slice of the network-wide buffer that BuildPrjnGBuf gives
\* a projection has (largest delay of all projections of the network) + 1
\* slots per receiving neuron; the buffer BuildGBuffs makes for a projection
\* has (the projection's own delay) + 1 slots per receiving neuron.
C10_NetMaxOrOwnPlusOne ==
    \A p \in DOMAIN PrjnGBufN :
        /\ "PrjnGBuf" \in bldDone =>
              /\ NetMaxDelay = NetworkMaxDelay
              /\ PrjnGBufN[p] = LayN(PRecv(p)) * (NetworkMaxDelay + 1)
        /\ GidxLen[p] > 0 =>
              /\ GidxLen[p] = bldDelay[p] + 1
              /\ GBufN[p] = LayN(PRecv(p)) * (bldDelay[p] + 1)

\* all buffers are built in a network whose largest delay is on the only
\* projection into layer 1, while the projections into layer 2 differ
C10_Witness ==
    /\ "PrjnGBuf" \in bldDone
    /\ \A p \in BldPrjns : GidxLen[p] > 0
    /\ bldDelay[1] = 2 /\ bldDelay[2] = 0 /\ bldDelay[3] = 1


(***************************************************************************)
(* Configuration and the layer loop of NetworkBase.Build (networkbase.go). *)
(* ConnectLayerNames looks both layers up by name and adds a projection;   *)
(* Build then builds the layers one after the other, collecting in emsg    *)
(* the error of every ly.Build() that fails.  Which layers fail to build   *)
(* is an input: it depends on the shapes and patterns they were given.     *)
(***************************************************************************)
MaxConnect == 2     \* ConnectLayerNames calls that are made

OldOff == TxOff /\ CaOff /\ WtOff /\ BldOff

ErrLayers == <<"In", "Hid", "Out">>                   \* nt.Layers, by name
ErrNames == {"In", "Hid", "Out", "Nope"}              \* names a caller may pass
LayIdxs == 1 .. Len(ErrLayers)

\* nt.LayByNameTry: the layer of that name, or the "not found" error
LayByNameTry(name) ==
    IF \E i \in LayIdxs : ErrLayers[i] = name
    THEN [ok |-> TRUE, err |-> ""]
    ELSE [ok |-> FALSE, err |-> name]

\* a stand-in for AddErr that keeps the first error only
FirstErr(msg, err) == IF msg = <<>> THEN <<err>> ELSE msg

\* emsg += err.Error() + "\n"
AddErr(msg, err) == Append(msg, err)

ErrInit ==
    /\ blPhase = "config"
    /\ blOff \in [LayIdxs -> BOOLEAN]
    /\ blFail \in SUBSET LayIdxs
    /\ blTooBig \in BOOLEAN
    /\ blPrjns = <<>>
    /\ blConnErr = <<>>
    /\ blLi = 0
    /\ blBuilt = <<>>
    /\ emsg = <<>>
    /\ blRet = [done |-> FALSE, err |-> <<>>]

InitErr == ErrInit /\ OldOff /\ IoOff /\ GpuOff /\ ParOff /\ NrnOff /\ KinOff /\ LateOff

\* NetworkBase.ConnectLayerNames(send, recv, ...)
ConnectLayerNames(send, recv) ==
    /\ blPhase = "config"
    /\ Len(blPrjns) + Len(blConnErr) < MaxConnect
    /\ LET r == LayByNameTry(recv)
           sd == LayByNameTry(send)
       IN IF ~r.ok
          THEN blConnErr' = Append(blConnErr, r.err) /\ UNCHANGED blPrjns
          ELSE IF ~sd.ok
          THEN blConnErr' = Append(blConnErr, sd.err) /\ UNCHANGED blPrjns
          ELSE blPrjns' = Append(blPrjns, <<send, recv>>) /\ UNCHANGED blConnErr
    /\ UNCHANGED <<blPhase, blOff, blFail, blTooBig, blLi, blBuilt, emsg, blRet>>
    /\ UNCHANGED notErr

\* NetworkBase.Build up to its layer loop: emsg := ""
BuildBegin ==
    /\ blPhase = "config"
    /\ blPhase' = "build"
    /\ emsg' = <<>>
    /\ blLi' = 1
    /\ UNCHANGED <<blOff, blFail, blTooBig, blPrjns, blConnErr, blBuilt, blRet>>
    /\ UNCHANGED notErr

\* one iteration of Build's loop over nt.Layers
BuildLayer ==
    /\ blPhase = "build"
    /\ blLi <= Len(ErrLayers)
    /\ IF blOff[blLi]
       THEN UNCHANGED <<blBuilt, emsg>>
       ELSE /\ blBuilt' = Append(blBuilt, blLi)
            /\ emsg' = IF blLi \in blFail THEN AddErr(emsg, blLi) ELSE emsg
    /\ blLi' = blLi + 1
    /\ UNCHANGED <<blPhase, blOff, blFail, blTooBig, blPrjns, blConnErr, blRet>>
    /\ UNCHANGED notErr

\* the end of Build: log.Fatalf when the synapses do not fit a uint32 (the
\* process exits and nothing is returned), else errors.New(emsg) if emsg is
\* not empty, else nil
BuildReturn ==
    /\ blPhase = "build"
    /\ blLi > Len(ErrLayers)
    /\ IF blTooBig
       THEN blPhase' = "fatal" /\ UNCHANGED blRet
       ELSE blPhase' = "done" /\ blRet' = [done |-> TRUE, err |-> emsg]
    /\ UNCHANGED <<blOff, blFail, blTooBig, blPrjns, blConnErr, blLi, blBuilt, emsg>>
    /\ UNCHANGED notErr

NextErr ==
    \/ \E send, recv \in ErrNames : ConnectLayerNames(send, recv)
    \/ BuildBegin
    \/ BuildLayer
    \/ BuildReturn

SpecErr == InitErr /\ [][NextErr]_vars

(***************************************************************************)
(* Claims about Build's error handling (SpecErr).                          *)
(***************************************************************************)
\* the layers in s, as the ascending sequence of their indexes from i on
LayersFrom(i, s) ==
    LET F[k \in 1 .. (Len(ErrLayers) + 1)] ==
            IF k > Len(ErrLayers) THEN <<>>
            ELSE IF k \in s THEN <<k>> \o F[k + 1] ELSE F[k + 1]
    IN F[i]

MaxReads == 1       \* files that are read
WtUnit == 10000     \* the value 1.0
Prec == 4           \* weights.Prec: significant digits written

IoLayers == <<"Hid", "Out">>                          \* nt.Layers, by name
IoSynIds == 0 .. (NSend * NRecv - 1)

\* number of decimal digits of x > 0
Digits(x) ==
    LET F[k \in 1 .. 8] == IF x < 10 ^ k THEN k ELSE F[k + 1]
    IN F[1]

\* strconv.FormatFloat(float64(v), 'g', Prec, 32): v rounded to Prec digits
FormatFloat(v) ==
    IF v = 0 \/ Digits(v) <= Prec
    THEN [m |-> v, e |-> 0]
    ELSE LET u == 10 ^ (Digits(v) - Prec)
         IN [m |-> (v + u \div 2) \div u, e |-> Digits(v) - Prec]

\* the float32 that the decoder reads from the text t
ParseFloat(t) == t.m * 10 ^ t.e

\* SWtParams.LWtFmWts at the scale of WtUnit
IoLWtFmWts(wt, swt) ==
    IF swt = 0 THEN 0
    ELSE LET l == TruncDiv(wt * WtUnit, 2 * swt)
         IN IF l < 0 THEN 0 ELSE IF l > WtUnit THEN WtUnit ELSE l

\* Prjn.SynIdx: index in pj.Syns of the synapse from sidx to ridx, or -1
SynIdxLoop(sidx, ridx, ci) ==
    LET F[c \in 0 .. NRecv] ==
            IF c >= SendConN(LrnPrjn, sidx) THEN -1
            ELSE IF SendConIdx(LrnPrjn, SendConIdxStart(LrnPrjn, sidx) + c) # ridx
            THEN F[c + 1]
            ELSE SendConIdxStart(LrnPrjn, sidx) + c
    IN F[ci]

SynIdx(sidx, ridx) == IF sidx >= NSend THEN -1 ELSE SynIdxLoop(sidx, ridx, 0)

\* Prjn.SetSynVal(varNm, sidx, ridx, val) on the synapses syns; it returns
\* nil for the variable names SetWts passes, found or not
SetSynVal(syns, varNm, sidx, ridx, val) ==
    LET synIdx == SynIdx(sidx, ridx)
    IN IF synIdx < 0 \/ synIdx >= Cardinality(DOMAIN syns) THEN syns
       ELSE IF varNm = "SWt" THEN [syns EXCEPT ![synIdx].SWt = val]
       ELSE LET swt == IF syns[synIdx].SWt = 0 THEN val ELSE syns[synIdx].SWt
            IN [syns EXCEPT ![synIdx] =
                    [Wt |-> val, SWt |-> swt, LWt |-> IoLWtFmWts(val, swt)]]

\* the inner loop of Prjn.SetWts over pr.Si, from its k-th element on; the
\* decoder has read the numbers of the file (ParseFloat).  pr.Wt[si] beyond
\* the end of pr.Wt is an index-out-of-range panic.
RECURSIVE SetWtsSi(_, _, _)
SetWtsSi(pr, k, st) ==
    IF st.panic \/ k > Len(pr.Si) THEN st
    ELSE LET hasWt1 == Len(pr.Wt1) >= Len(pr.Si)
             s1 == IF hasWt1
                   THEN SetSynVal(st.syns, "SWt", pr.Si[k], pr.Ri, ParseFloat(pr.Wt1[k]))
                   ELSE st.syns
         IN IF k > Len(pr.Wt)
            THEN [syns |-> s1, panic |-> TRUE]
            ELSE SetWtsSi(pr, k + 1,
                     [syns |-> SetSynVal(s1, "Wt", pr.Si[k], pr.Ri, ParseFloat(pr.Wt[k])),
                      panic |-> FALSE])

\* the outer loop of Prjn.SetWts over pw.Rs
RECURSIVE SetWtsRs(_, _, _)
SetWtsRs(pw, i, st) ==
    IF st.panic \/ i > Len(pw.Rs) THEN st
    ELSE SetWtsRs(pw, i + 1, SetWtsSi(pw.Rs[i], 1, st))

\* Prjn.SetWts(pw) on the projection pj
PrjnSetWts(pw, pj) ==
    LET gs == IF pw.HasGScale THEN pw.GScale ELSE pj.GScale
        r == SetWtsRs(pw, 1, [syns |-> pj.Syns, panic |-> FALSE])
    IN [pj |-> [GScale |-> gs, Syns |-> r.syns], panic |-> r.panic]

\* Layer.SetWts(lw): hands the projection's part of lw to Prjn.SetWts
LayerSetWts(lw, pj) == PrjnSetWts(lw.Prjn, pj)

\* Prjn.WriteWtsJSON: for each receiving neuron its senders, Wt and SWt
WriteRs(pj, ri) ==
    LET nc == RecvConN(LrnPrjn, ri)
        st == RecvConIdxStart(LrnPrjn, ri)
    IN [Ri |-> ri,
        Si |-> [c \in 1 .. nc |-> RecvConIdx(LrnPrjn, st + c - 1)],
        Wt |-> [c \in 1 .. nc |-> FormatFloat(pj.Syns[RecvSynIdx(LrnPrjn, st + c - 1)].Wt)],
        Wt1 |-> [c \in 1 .. nc |-> FormatFloat(pj.Syns[RecvSynIdx(LrnPrjn, st + c - 1)].SWt)]]

PrjnWriteWts(pj) ==
    [HasGScale |-> TRUE, GScale |-> pj.GScale, Rs |-> [i \in 1 .. NRecv |-> WriteRs(pj, i - 1)]]

NoFile == [HasGScale |-> FALSE, GScale |-> 0, Rs |-> <<>>]

\* a stand-in for ContinueAt that leaves the loop at a missing layer
BreakAt(li, n) == n + 1

\* "continue": the loop of SetWts goes on with the next layer of the file
ContinueAt(li, n) == li + 1

\* the loop of NetworkBase.SetWts over nw.Layers
RECURSIVE SetWtsLayers(_, _, _)
SetWtsLayers(nw, li, st) ==
    IF st.panic \/ li > Len(nw.Layers) THEN st
    ELSE LET lw == nw.Layers[li]
             r == LayByNameTry(lw.Layer)
         IN IF ~r.ok
            THEN SetWtsLayers(nw, ContinueAt(li, Len(nw.Layers)), [st EXCEPT !.err = r.err])
            ELSE LET x == LayerSetWts(lw, st.Prjn[lw.Layer])
                 IN SetWtsLayers(nw, li + 1,
                        [st EXCEPT !.Prjn[lw.Layer] = x.pj, !.panic = x.panic])

NoMeta == [k \in {} |-> ""]

\* NetworkBase.SetWts(nw)
NetSetWts(nw, st) ==
    LET nm == IF nw.Network # "" THEN nw.Network ELSE st.Nm
        md == IF nw.MetaData = NoMeta THEN st.Meta
              ELSE IF st.Meta = NoMeta THEN nw.MetaData
              ELSE [k \in DOMAIN st.Meta \cup DOMAIN nw.MetaData |->
                       IF k \in DOMAIN nw.MetaData THEN nw.MetaData[k] ELSE st.Meta[k]]
    IN SetWtsLayers(nw, 1, [Nm |-> nm, Meta |-> md, Prjn |-> st.Prjn,
                            err |-> "", panic |-> FALSE])

(***************************************************************************)
(* The files that are read: one that cannot be decoded, and decoded files  *)
(* of one or two layers, the first layer entry in one of four shapes.      *)
(***************************************************************************)
FileShapes == {"full", "noWt1", "shortWt", "badIdx"}

FileRs(shape, ri) ==
    [Ri |-> ri,
     Si |-> IF shape = "badIdx" /\ ri = 0 THEN <<0, 7>> ELSE <<0, 1>>,
     Wt |-> IF shape = "shortWt" /\ ri = 0
            THEN <<[m |-> 25, e |-> 2]>>
            ELSE <<[m |-> 25, e |-> 2], [m |-> 75, e |-> 2]>>,
     Wt1 |-> IF shape = "noWt1" THEN <<>> ELSE <<[m |-> 4, e |-> 3], [m |-> 6, e |-> 3]>>]

FilePrjn(shape) ==
    [HasGScale |-> shape # "noWt1", GScale |-> 2,
     Rs |-> [i \in 1 .. NRecv |-> FileRs(shape, i - 1)]]

FileLayers ==
    {[Layer |-> nm, Prjn |-> FilePrjn(sh)] : nm \in {"Hid", "Out", "Gone"}, sh \in FileShapes}

FileLayerSeqs ==
    {<<a>> : a \in FileLayers}
        \cup {<<q[1], q[2]>> : q \in {x \in FileLayers \X FileLayers :
                                        x[1].Layer # x[2].Layer /\ x[2].Prjn = FilePrjn("full")}}

MetaB == [k \in {"epoch"} |-> "7"]

BadFile == [bad |-> TRUE, Network |-> "", MetaData |-> NoMeta, Layers |-> <<>>]

IoFiles ==
    {BadFile} \cup
    {[bad |-> FALSE, Network |-> h.n, MetaData |-> h.md, Layers |-> ls] :
        h \in {[n |-> "", md |-> NoMeta], [n |-> "NetB", md |-> MetaB]},
        ls \in FileLayerSeqs}

IoSyn0(k) ==
    LET wt == 12346 + 1111 * k
        swt == IF k % 2 = 0 THEN 8000 ELSE 6667
    IN [Wt |-> wt, SWt |-> swt, LWt |-> IoLWtFmWts(wt, swt)]

IoNoRes == [kind |-> "none", err |-> "", lay |-> ""]

IoInit ==
    /\ ioOn = TRUE
    /\ ioNm = "NetA"
    /\ ioMeta = [k \in {"epoch"} |-> "3"]
    /\ ioPrjn = [l \in {"Hid", "Out"} |-> [GScale |-> 1, Syns |-> [k \in IoSynIds |-> IoSyn0(k)]]]
    /\ ioOut = [l \in {"Hid", "Out"} |-> NoFile]
    /\ ioN = 0
    /\ ioRes = IoNoRes
    /\ ioIn = BadFile
    /\ ioPre = [Nm |-> ioNm, Meta |-> ioMeta, Prjn |-> ioPrjn]
    /\ ioAtWrite = [l \in {"Hid", "Out"} |-> ioPrjn[l].Syns]

InitIo == IoInit /\ OldOff /\ ErrOff /\ GpuOff /\ ParOff /\ NrnOff /\ KinOff /\ LateOff

\* NetworkBase.ReadWtsJSON(r), r holding the file f
ReadWtsJSON(f) ==
    /\ ioOn /\ ioN < MaxReads
    /\ ioN' = ioN + 1
    /\ ioIn' = f
    /\ ioPre' = [Nm |-> ioNm, Meta |-> ioMeta, Prjn |-> ioPrjn]
    /\ IF f.bad
       THEN /\ ioRes' = [kind |-> "err", err |-> "decode", lay |-> ""]
            /\ UNCHANGED <<ioNm, ioMeta, ioPrjn>>
       ELSE LET r == NetSetWts(f, [Nm |-> ioNm, Meta |-> ioMeta, Prjn |-> ioPrjn])
            IN /\ ioNm' = r.Nm
               /\ ioMeta' = r.Meta
               /\ ioPrjn' = r.Prjn
               /\ ioRes' = [kind |-> IF r.panic THEN "panic"
                                     ELSE IF r.err # "" THEN "err" ELSE "ok",
                            err |-> r.err, lay |-> ""]
    /\ UNCHANGED <<ioOn, ioOut, ioAtWrite>>
    /\ UNCHANGED notIo

\* Prjn.WriteWtsJSON of the projection into layer l
PrjnWriteWtsJSON(l) ==
    /\ ioOn /\ ioN < MaxReads
    /\ UNCHANGED ioN
    /\ ioOut' = [ioOut EXCEPT ![l] = PrjnWriteWts(ioPrjn[l])]
    /\ ioAtWrite' = [ioAtWrite EXCEPT ![l] = ioPrjn[l].Syns]
    /\ ioRes' = [kind |-> "wrote", err |-> "", lay |-> l]
    /\ UNCHANGED <<ioOn, ioNm, ioMeta, ioPrjn, ioIn, ioPre>>
    /\ UNCHANGED notIo

\* Prjn.ReadWtsJSON of the projection into layer l, from the file it wrote
PrjnReadWtsJSON(l) ==
    /\ ioOn /\ ioN < MaxReads
    /\ Len(ioOut[l].Rs) > 0
    /\ ioN' = ioN + 1
    /\ ioPre' = [Nm |-> ioNm, Meta |-> ioMeta, Prjn |-> ioPrjn]
    /\ LET r == PrjnSetWts(ioOut[l], ioPrjn[l])
       IN /\ ioPrjn' = [ioPrjn EXCEPT ![l] = r.pj]
          /\ ioRes' = [kind |-> IF r.panic THEN "panic" ELSE "readback", err |-> "", lay |-> l]
    /\ UNCHANGED <<ioOn, ioNm, ioMeta, ioOut, ioIn, ioAtWrite>>
    /\ UNCHANGED notIo

NextIo ==
    \/ \E f \in IoFiles : ReadWtsJSON(f)
    \/ \E l \in {"Hid", "Out"} : PrjnWriteWtsJSON(l)
    \/ \E l \in {"Hid", "Out"} : PrjnReadWtsJSON(l)

SpecIo == InitIo /\ [][NextIo]_vars

(***************************************************************************)
(* Claims about weights files (SpecIo).                                    *)
(***************************************************************************)
FileHas(f, nm) == \E i \in 1 .. Len(f.Layers) : f.Layers[i].Layer = nm
FileEntry(f, nm) == f.Layers[CHOOSE i \in 1 .. Len(f.Layers) : f.Layers[i].Layer = nm]
NetRead == ioRes.kind \in {"ok", "err", "panic"} /\ ioRes.lay = ""

Malformed(f) ==
    \/ f.bad
    \/ \E i \in 1 .. Len(f.Layers) : \E j \in 1 .. Len(f.Layers[i].Prjn.Rs) :
          Len(f.Layers[i].Prjn.Rs[j].Wt) < Len(f.Layers[i].Prjn.Rs[j].Si)

\* C13: when reading an unreadable or malformed file has failed, the
\* network's name and metadata and every synapse's Wt, LWt and SWt are as they
\* were before the call.
C13_FailedLoadNoMutation ==
    (NetRead /\ ioRes.kind \in {"err", "panic"} /\ Malformed(ioIn)) =>
        /\ ioNm = ioPre.Nm
        /\ ioMeta = ioPre.Meta
        /\ \A l \in {"Hid", "Out"} : ioPrjn[l].Syns = ioPre.Prjn[l].Syns

\* C14: after a projection has read back the file it wrote, every synapse
\* has the Wt and the SWt it had when the file was written.
C14_RoundTripLossless ==
    ioRes.kind = "readback" =>
        \A k \in IoSynIds :
            /\ ioPrjn[ioRes.lay].Syns[k].Wt = ioAtWrite[ioRes.lay][k].Wt
            /\ ioPrjn[ioRes.lay].Syns[k].SWt = ioAtWrite[ioRes.lay][k].SWt


(***************************************************************************)
(* The device driver (GPU.RunCycle, GPU.RunDWt, GPU.RunWtFmDWt and         *)
(* GPU.RunPipeline).  RunPipeline submits one compute pipeline             *)
(* (ComputeCommand) and waits for it (ComputeSubmitWait); the driver       *)
(* functions are called one at a time by the host.                         *)
(***************************************************************************)
MaxGpuCalls == 3    \* driver calls that are made

\* a stand-in for SynCaRuns that runs the kernel in every cycle
SynCaAlways(testing) == TRUE

\* if ctx.Testing.IsFalse() { ... SynCa ... }
SynCaRuns(testing) == ~testing

\* the RunPipeline calls of a driver function, in program order
Pipelines(call, testing) ==
    IF call = "cycle"
    THEN <<"GatherSpikes", "PoolGeMax", "PoolGi", "Cycle">>
             \o (IF SynCaRuns(testing) THEN <<"SynCa">> ELSE <<>>)
    ELSE IF call = "dwt" THEN <<"DWt">>
    ELSE IF call = "wtfmdwt" THEN <<"WtFmDWt">>
    ELSE <<>>

GpuNoCall == [call |-> "none", testing |-> FALSE, log |-> <<>>]

GpuInit ==
    /\ gpuCall = "none" /\ gpuPc = 0 /\ gpuRun = "none" /\ gpuTesting = FALSE
    /\ gpuLog = <<>> /\ gpuCalls = 0 /\ gpuDone = GpuNoCall

InitGpu == GpuInit /\ OldOff /\ ErrOff /\ IoOff /\ ParOff /\ NrnOff /\ KinOff /\ LateOff

\* entry of a driver function
GpuEnter(call, testing) ==
    /\ gpuCall = "none"
    /\ gpuCalls < MaxGpuCalls
    /\ gpuCall' = call
    /\ gpuTesting' = testing
    /\ gpuPc' = 1
    /\ gpuLog' = <<>>
    /\ gpuCalls' = gpuCalls + 1
    /\ UNCHANGED <<gpuRun, gpuDone>>
    /\ UNCHANGED notGpu

RunCycle(testing) == GpuEnter("cycle", testing)

RunDWt == GpuEnter("dwt", FALSE)

RunWtFmDWt == GpuEnter("wtfmdwt", FALSE)

\* RunPipeline: pl.ComputeCommand, the kernel starts
RunPipelineSubmit ==
    /\ gpuCall \notin {"none", "off"}
    /\ gpuRun = "none"
    /\ gpuPc <= Len(Pipelines(gpuCall, gpuTesting))
    /\ gpuRun' = Pipelines(gpuCall, gpuTesting)[gpuPc]
    /\ gpuLog' = Append(gpuLog, [k |-> gpuRun', ev |-> "begin"])
    /\ UNCHANGED <<gpuCall, gpuPc, gpuTesting, gpuCalls, gpuDone>>
    /\ UNCHANGED notGpu

\* RunPipeline: gp.Sys.ComputeSubmitWait returns when the kernel is done
RunPipelineWait ==
    /\ gpuRun # "none"
    /\ gpuLog' = Append(gpuLog, [k |-> gpuRun, ev |-> "end"])
    /\ gpuRun' = "none"
    /\ gpuPc' = gpuPc + 1
    /\ UNCHANGED <<gpuCall, gpuTesting, gpuCalls, gpuDone>>
    /\ UNCHANGED notGpu

\* the driver function returns
GpuReturn ==
    /\ gpuCall \notin {"none", "off"}
    /\ gpuRun = "none"
    /\ gpuPc > Len(Pipelines(gpuCall, gpuTesting))
    /\ gpuDone' = [call |-> gpuCall, testing |-> gpuTesting, log |-> gpuLog]
    /\ gpuCall' = "none"
    /\ gpuPc' = 0
    /\ gpuLog' = <<>>
    /\ UNCHANGED <<gpuRun, gpuTesting, gpuCalls>>
    /\ UNCHANGED notGpu

NextGpu ==
    \/ \E testing \in BOOLEAN : RunCycle(testing)
    \/ RunDWt
    \/ RunWtFmDWt
    \/ RunPipelineSubmit
    \/ RunPipelineWait
    \/ GpuReturn

SpecGpu == InitGpu /\ [][NextGpu]_vars

(***************************************************************************)
(* Claims about the device driver (SpecGpu).                               *)
(***************************************************************************)
\* the begin and end events of the kernels ks run one after the other
Serial(ks) ==
    [i \in 1 .. (2 * Len(ks)) |->
        [k |-> ks[(i + 1) \div 2], ev |-> IF i % 2 = 1 THEN "begin" ELSE "end"]]

IsPrefix(a, b) == Len(a) <= Len(b) /\ \A i \in 1 .. Len(a) : a[i] = b[i]

FiveKernels == <<"GatherSpikes", "PoolGeMax", "PoolGi", "Cycle", "SynCa">>
FourKernels == <<"GatherSpikes", "PoolGeMax", "PoolGi", "Cycle">>

ThetaCycles == 4      \* ctx.ThetaCycles, cycles per theta cycle
MaxParDelay == 2      \* delays that are configured
MaxParTot == 6        \* cycles that are run
ParSenders == {1, 2}
ParWt == <<3, 5>>     \* sy.Wt of the two synapses, scaled
BurstVals == {0, 2}   \* Neurons[si].Burst

DelLen(d) == d + 1

WriteIdx(d, cycTot) == (cycTot + d) % DelLen(d)

ReadIdx(d, cycTot) == cycTot % DelLen(d)

\* SendSpike: ctx.Cycle != ctx.ThetaCycles-1-int32(pj.Params.Com.DelLen)
HostBurstCycle(d) == ThetaCycles - 1 - DelLen(d)

\* RecvSpikes: ctx.Cycle != ctx.ThetaCycles-1
DevBurstCycle == ThetaCycles - 1

\* SendSpike as it would be with the spike branch taken for every projection
\* type
SendSpikeOnSpike(si, buf) ==
    IF parSpike[si] = 0 THEN buf
    ELSE [buf EXCEPT ![WriteIdx(parDelay, parTot)] = @ + ParWt[si]]

\* Prjn.SendSpike (prjn_compute.go) of sending neuron si into buffer buf
CtxSendSpike(si, buf) ==
    LET scale == IF parType = "CTCtxt" THEN parBurst[si] ELSE 1
        quit == IF parType = "CTCtxt"
                THEN parCycle # HostBurstCycle(parDelay)
                ELSE parSpike[si] = 0
        wrOff == WriteIdx(parDelay, parTot)
        sv == scale * ParWt[si]
    IN IF quit THEN buf ELSE [buf EXCEPT ![wrOff] = @ + sv]

RECURSIVE CtxSendSpikeLay(_, _)
CtxSendSpikeLay(si, buf) ==
    IF si \notin ParSenders THEN buf
    ELSE CtxSendSpikeLay(si + 1, CtxSendSpike(si, buf))

\* RecvSpikeSyn, RecvBurstSyn
RecvSpikeSyn(si, gbuf) == gbuf + parSpike[si] * ParWt[si]

RecvBurstSyn(si, gbuf) == gbuf + parBurst[si] * ParWt[si]

\* RecvSpikes: the loop over the receiving neuron's synapses
RECURSIVE RecvSpikesSyns(_, _)
RecvSpikesSyns(ci, gbuf) ==
    IF ci \notin ParSenders THEN gbuf
    ELSE RecvSpikesSyns(ci + 1,
            IF parType = "CTCtxt" THEN RecvBurstSyn(ci, gbuf)
            ELSE RecvSpikeSyn(ci, gbuf))

RecvSpikes(gbuf) ==
    IF parType = "CTCtxt" /\ parCycle # DevBurstCycle THEN gbuf
    ELSE RecvSpikesSyns(1, gbuf)

\* Prjn.RecvSpikes (prjn_compute.go): the body is commented out behind a
\* return, so the slot is left as it is
PrjnRecvSpikes(recvIdx, gbuf) == gbuf

ParZeroBuf(d) == [i \in 0 .. d |-> 0]

ParInit ==
    /\ parOn = TRUE
    /\ parType \in {"Forward", "CTCtxt"}
    /\ parDelay \in 0 .. MaxParDelay
    /\ parCycle = 0 /\ parTot = 0
    /\ parPhase = "hgather"
    /\ parSpike = [si \in ParSenders |-> 0]
    /\ parBurst = [si \in ParSenders |-> 0]
    /\ hGBuf = ParZeroBuf(parDelay) /\ dGBuf = ParZeroBuf(parDelay)
    /\ rGBuf = ParZeroBuf(parDelay)
    /\ hGRaw = 0 /\ dGRaw = 0

InitPar == ParInit /\ OldOff /\ ErrOff /\ IoOff /\ GpuOff /\ NrnOff /\ KinOff /\ LateOff

\* host gather: read the slot of this cycle and zero it.  The buffer of the
\* receiver-based host path takes Prjn.RecvSpikes into the slot of the prior
\* time step (bi of RecvSpikes) before the same read.
HostGather ==
    /\ parOn /\ parPhase = "hgather"
    /\ LET bi == ReadIdx(parDelay, parTot)
           wi == WriteIdx(parDelay, parTot - 1)
           recvd == [rGBuf EXCEPT ![wi] = PrjnRecvSpikes(1, @)]
       IN /\ hGRaw' = hGBuf[bi]
          /\ hGBuf' = [hGBuf EXCEPT ![bi] = 0]
          /\ rGBuf' = [recvd EXCEPT ![bi] = 0]
    /\ parPhase' = "dgather"
    /\ UNCHANGED <<parOn, parType, parDelay, parCycle, parTot, parSpike, parBurst,
                   dGBuf, dGRaw>>
    /\ UNCHANGED notPar

\* device GatherSpikesPrjn: RecvSpikes into the slot of the prior time step,
\* then read the slot of this cycle and zero it
GatherSpikesPrjn ==
    /\ parOn /\ parPhase = "dgather"
    /\ LET wi == WriteIdx(parDelay, parTot - 1)
           recvd == [dGBuf EXCEPT ![wi] = RecvSpikes(@)]
           bi == ReadIdx(parDelay, parTot)
       IN /\ dGRaw' = recvd[bi]
          /\ dGBuf' = [recvd EXCEPT ![bi] = 0]
    /\ parPhase' = "neuron"
    /\ UNCHANGED <<parOn, parType, parDelay, parCycle, parTot, parSpike, parBurst,
                   hGBuf, hGRaw, rGBuf>>
    /\ UNCHANGED notPar

\* the neuron update of the sending layer: the same Spike and Burst on both
ParNeuron(spk, bst) ==
    /\ parOn /\ parPhase = "neuron"
    /\ parTot < MaxParTot
    /\ parSpike' = spk
    /\ parBurst' = bst
    /\ parPhase' = "send"
    /\ UNCHANGED <<parOn, parType, parDelay, parCycle, parTot, hGBuf, dGBuf,
                   hGRaw, dGRaw, rGBuf>>
    /\ UNCHANGED notPar

\* host SendSpike of every sending neuron, then the cycle counters advance
HostSendSpike ==
    /\ parOn /\ parPhase = "send"
    /\ hGBuf' = CtxSendSpikeLay(1, hGBuf)
    /\ parCycle' = (parCycle + 1) % ThetaCycles
    /\ parTot' = parTot + 1
    /\ parPhase' = "hgather"
    /\ UNCHANGED <<parOn, parType, parDelay, parSpike, parBurst, dGBuf, hGRaw, dGRaw,
                   rGBuf>>
    /\ UNCHANGED notPar

NextPar ==
    \/ HostGather
    \/ GatherSpikesPrjn
    \/ \E spk \in [ParSenders -> {0, 1}], bst \in [ParSenders -> BurstVals] :
          ParNeuron(spk, bst)
    \/ HostSendSpike

SpecPar == InitPar /\ [][NextPar]_vars

(***************************************************************************)
(* Claims about host and device transmission (SpecPar).                    *)
(***************************************************************************)
\* C16: given the same sender spikes and burst values, the host path and the
\* device path deliver the same contribution to the receiving neuron's raw
\* conductance in the same cycle, burst-mode (CTCtxt) projections included:
\* once both have gathered in a cycle, what they read is equal.
C16_HostDeviceSameGRaw ==
    (parOn /\ parPhase = "neuron") => hGRaw = dGRaw

\* the same restricted to projections that are not burst-mode
ParSameGRawNotBurst ==
    (parOn /\ parPhase = "neuron" /\ parType # "CTCtxt") => hGRaw = dGRaw

\* the same restricted to burst-mode projections of delay 0
ParSameGRawBurstNoDelay ==
    (parOn /\ parPhase = "neuron" /\ parType = "CTCtxt" /\ parDelay = 0)
        => hGRaw = dGRaw

\* what the sending neurons' Burst values add to the receiving neuron
BurstSum == parBurst[1] * ParWt[1] + parBurst[2] * ParWt[2]

\* C21: a burst-mode (CTCtxt) projection adds to the ring buffer at one fixed
\* cycle of the theta cycle only (ThetaCycles-1-DelLen in the host's
\* SendSpike, ThetaCycles-1 in the device's RecvSpikes); what it adds there is
\* Burst times weight of every sending neuron, whether or not the neuron
\* spiked, and in every other cycle it adds nothing.
C21_BurstOnlyAtFixedCycle ==
    [][(parOn /\ parType = "CTCtxt") =>
        /\ parPhase = "send" =>
              LET wrOff == WriteIdx(parDelay, parTot)
                  add == IF parCycle = ThetaCycles - 1 - DelLen(parDelay)
                         THEN BurstSum ELSE 0
              IN /\ hGBuf'[wrOff] = hGBuf[wrOff] + add
                 /\ \A i \in DOMAIN hGBuf : i # wrOff => hGBuf'[i] = hGBuf[i]
        /\ parPhase = "dgather" =>
              LET wi == WriteIdx(parDelay, parTot - 1)
                  bi == ReadIdx(parDelay, parTot)
                  add == IF parCycle = ThetaCycles - 1 THEN BurstSum ELSE 0
              IN /\ wi # bi => dGBuf'[wi] = dGBuf[wi] + add
                 /\ wi = bi => dGRaw' = dGBuf[bi] + add
                 /\ \A i \in DOMAIN dGBuf :
                       (i # wi /\ i # bi) => dGBuf'[i] = dGBuf[i]]_vars

\* a burst-mode projection has just sent the Burst values of neurons that
\* did not spike, in the second theta cycle
C21_Witness ==
    /\ parOn /\ parType = "CTCtxt" /\ parPhase = "hgather"
    /\ parSpike = [si \in ParSenders |-> 0]
    /\ parBurst[1] = 2
    /\ parTot > ThetaCycles
    /\ parCycle = ThetaCycles - DelLen(parDelay)
    /\ hGBuf[WriteIdx(parDelay, parTot - 1)] = BurstSum

\* C24: on the host with CPURecvSpikes set, RecvSpikes adds the scaled weight
\* of every synapse whose sending neuron spiked into the receiving neuron's
\* slot, so that after a gather the buffer is the one the sender-based
\* SendSpike produces.
C24_RecvSpikesSameAsSendSpike ==
    (parOn /\ parType # "CTCtxt" /\ parPhase = "dgather") => rGBuf = hGBuf

\* the receiver-based host buffer never receives anything
RecvSpikesLeavesBufferEmpty ==
    parOn => rGBuf = ParZeroBuf(parDelay)


(***************************************************************************)
(* One neuron run through the cycle: ActParams.VmFmG and SpikeFmVm of      *)
(* act.go, called in this order by LayerParams.SpikeFmG.  Potentials and   *)
(* conductances are fixed point, NU units to 1.0; the parameters are the   *)
(* defaults of act.go, with Spike.Exp, Spike.Tr and Spike.VmR configured.  *)
(* Spiked, ISIAvg and Act, which SpikeFmVm also sets, feed nothing here    *)
(* and are left out of the neuron.                                         *)
(***************************************************************************)
NU == 100
VmRangeMin == 10      \* ac.VmRange.Min
VmRangeMax == 100     \* ac.VmRange.Max
SpikeThr == 50        \* ac.Spike.Thr
SpikeExpThr == 90     \* ac.Spike.ExpThr
ErevE == 100          \* ac.Erev.E
ErevL == 30           \* ac.Erev.L
ErevI == 10           \* ac.Erev.I
ErevK == 10           \* ac.Erev.K
GbarE == 100          \* ac.Gbar.E
GbarL == 20           \* ac.Gbar.L
GbarI == 100          \* ac.Gbar.I
GbarK == 100          \* ac.Gbar.K
VmTau == 281          \* ac.Dt.VmTau; VmDt = 1 / VmTau
VmDendTau == 500      \* ac.Dt.VmDendTau; VmDendDt = 1 / VmDendTau
VmSteps == 2          \* ac.Dt.VmSteps; DtStep = 1 / VmSteps
RTauNum == 5          \* ac.Spike.RTau = 5/3;
RTauDen == 3          \*   RDt = 1 / RTau = 3/5
GbarR == 300          \* ac.Dend.GbarR
GbarExp == 20         \* ac.Dend.GbarExp
InitVm == 30          \* ac.Init.Vm
ISIMax == 200         \* nrn.ISI > 200 starts over at -1
MaxTr == 3            \* refractory periods that are configured
MaxNrnCycles == 6     \* cycles that are run
VmRs == {30, 5}       \* ac.Spike.VmR that is configured: the default, and one
                      \* below VmRange.Min
\* Ge, Gi that the conductance step leaves before VmFmG
NrnInputs == {<<-5, 0>>, <<40, 100>>, <<200, 0>>, <<600, 0>>}

NMul(a, b) == TruncDiv(a * b, NU)

\* ac.VmRange.ClipVal
ClipVal(x) ==
    IF x < VmRangeMin THEN VmRangeMin ELSE IF x > VmRangeMax THEN VmRangeMax ELSE x

InetFmG(vm, ge, gl, gi, gk) ==
    LET inet == NMul(ge, ErevE - vm) + NMul(NMul(gl, GbarL), ErevL - vm)
                  + NMul(gi, ErevI - vm) + NMul(gk, ErevK - vm)
    IN IF inet > VmTau THEN VmTau ELSE IF inet < -VmTau THEN -VmTau ELSE inet

\* VmFmInet with dt = 1 / tau
VmFmInet(vm, tau, inet) == ClipVal(vm + TruncDiv(inet * NU, tau))

\* VmInteg: VmSteps steps of dt * DtStep, from r = [nvm, inet]
RECURSIVE VmIntegSteps(_, _, _, _, _, _, _)
VmIntegSteps(i, r, tau, ge, gl, gi, gk) ==
    IF i >= VmSteps THEN r
    ELSE LET inet == InetFmG(r.nvm, ge, gl, gi, gk)
         IN VmIntegSteps(i + 1, [nvm |-> VmFmInet(r.nvm, tau * VmSteps, inet),
                                 inet |-> inet], tau, ge, gl, gi, gk)

VmInteg(vm, tau, ge, gl, gi, gk) ==
    VmIntegSteps(0, [nvm |-> vm, inet |-> 0], tau, ge, gl, gi, gk)

\* ac.Gbar.L * ac.Spike.ExpSlope * FastExp((exVm - Thr) / ExpSlope), at most
\* VmTau: 0.004 * e^(k/2) for exVm - Thr = k/100, to the resolution
ExpTab == <<0, 0, 1, 1, 2, 4, 8, 13, 21, 36, 59, 97, 161, 266>>

ExpI(exVm) ==
    LET k == exVm - SpikeThr
    IN IF k < 0 THEN 0 ELSE IF k >= Len(ExpTab) THEN VmTau ELSE ExpTab[k + 1]

\* a stand-in for Refractory whose window is one cycle short
RefractoryShort(isi, tr) == tr > 0 /\ isi >= 0 /\ isi < tr - 1

\* ac.Spike.Tr > 0 && nrn.ISI >= 0 && nrn.ISI < float32(ac.Spike.Tr)
Refractory(isi, tr) == tr > 0 /\ isi >= 0 /\ isi < tr

\* ActParams.VmFmG
VmFmG(cfg, n) ==
    LET updtVm == ~Refractory(n.ISI, cfg.Tr)
        ge == NMul(n.Ge, GbarE)
        gi == NMul(n.Gi, GbarI)
        gk == NMul(n.Gk, GbarK)
        integ == VmInteg(n.Vm, VmTau, ge, NU, gi, gk)
        exVm == TruncDiv(integ.nvm + n.Vm, 2)
        expi == IF updtVm /\ cfg.Exp THEN ExpI(exVm) ELSE 0
        nvm == IF cfg.Exp THEN VmFmInet(integ.nvm, VmTau, expi) ELSE integ.nvm
        dvm == IF n.ISI = cfg.Tr - 1 THEN cfg.VmR - n.Vm
               ELSE TruncDiv(RTauDen * (cfg.VmR - n.Vm), RTauNum)
        glEff == IF updtVm THEN NU ELSE NU + GbarR
        giEff == gi + NMul(GbarI, n.SSGiDend)
        dend == VmInteg(n.VmDend, VmDendTau, ge, glEff, giEff, gk)
        dvmd == IF updtVm
                THEN VmFmInet(dend.nvm, VmDendTau, NMul(GbarExp, expi))
                ELSE dend.nvm
    IN [n EXCEPT !.Vm = IF updtVm THEN nvm ELSE n.Vm + dvm,
                 !.Inet = IF updtVm THEN integ.inet + expi ELSE NMul(dvm, VmTau),
                 !.VmDend = dvmd]

\* ActParams.SpikeFmVm
SpikeFmVm(cfg, n) ==
    LET spkThr == IF cfg.Exp THEN SpikeExpThr ELSE SpikeThr
        isi1 == n.ISI + 1
    IN IF n.Vm >= spkThr THEN [n EXCEPT !.Spike = 1, !.ISI = 0]
       ELSE [n EXCEPT !.Spike = 0,
                      !.ISI = IF n.ISI >= 0
                              THEN (IF isi1 > ISIMax THEN -1 ELSE isi1)
                              ELSE n.ISI]

\* InitActs
NrnInitActs ==
    [Vm |-> InitVm, VmDend |-> InitVm, ISI |-> -1, Spike |-> 0, Ge |-> 0,
     Gi |-> 0, Gk |-> 0, Inet |-> 0, SSGiDend |-> 0]

NrnNoHist == [mode |-> "none", preVm |-> InitVm, since |-> -1]

VmInit ==
    /\ nrnOn = "vm"
    /\ nrnCfg \in [Exp : BOOLEAN, Tr : 1 .. MaxTr, VmR : VmRs]
    /\ nrn = NrnInitActs
    /\ nrnPhase = "g"
    /\ nrnCyc = 0
    /\ nrnHist = NrnNoHist

InitVmSpec == VmInit /\ OldOff /\ ErrOff /\ IoOff /\ GpuOff /\ ParOff /\ KinOff /\ LateOff

\* the conductances of the cycle, as the conductance step leaves them
NrnGs(in) ==
    /\ nrnOn = "vm" /\ nrnPhase = "g"
    /\ nrnCyc < MaxNrnCycles
    /\ nrn' = [nrn EXCEPT !.Ge = in[1], !.Gi = in[2]]
    /\ nrnPhase' = "vm"
    /\ UNCHANGED <<nrnOn, nrnCfg, nrnCyc, nrnHist>>
    /\ UNCHANGED notNrn

\* SpikeFmG: ly.Act.VmFmG(nrn)
NrnVmFmG ==
    /\ nrnOn = "vm" /\ nrnPhase = "vm"
    /\ nrn' = VmFmG(nrnCfg, nrn)
    /\ nrnHist' = [mode |-> IF Refractory(nrn.ISI, nrnCfg.Tr) THEN "decay" ELSE "integ",
                   preVm |-> nrn.Vm,
                   since |-> IF nrnHist.since >= 0 THEN nrnHist.since + 1 ELSE -1]
    /\ nrnPhase' = "spike"
    /\ UNCHANGED <<nrnOn, nrnCfg, nrnCyc>>
    /\ UNCHANGED notNrn

\* SpikeFmG: ly.Act.SpikeFmVm(nrn)
NrnSpikeFmVm ==
    /\ nrnOn = "vm" /\ nrnPhase = "spike"
    /\ nrn' = SpikeFmVm(nrnCfg, nrn)
    /\ nrnHist' = [nrnHist EXCEPT !.since = IF nrn'.Spike = 1 THEN 0 ELSE @]
    /\ nrnPhase' = "g"
    /\ nrnCyc' = nrnCyc + 1
    /\ UNCHANGED <<nrnOn, nrnCfg>>
    /\ UNCHANGED notNrn

NextVm ==
    \/ \E in \in NrnInputs : NrnGs(in)
    \/ NrnVmFmG
    \/ NrnSpikeFmVm

SpecVm == InitVmSpec /\ [][NextVm]_vars

(***************************************************************************)
(* Claims about the membrane potential (SpecVm).                           *)
(***************************************************************************)
Dist(a, b) == IF a >= b THEN a - b ELSE b - a

AfterVmFmG == nrnOn = "vm" /\ nrnPhase = "spike"

\* C17: in each of the Tr cycles that follow a spike the membrane potential
\* is not integrated from the conductances but moves toward VmR, and in the
\* last of them it equals VmR; in every other cycle it is integrated.
C17_RefractoryWindow ==
    AfterVmFmG =>
       LET s == nrnHist.since
       IN IF s >= 1 /\ s <= nrnCfg.Tr
          THEN /\ nrnHist.mode = "decay"
               /\ Dist(nrn.Vm, nrnCfg.VmR) <= Dist(nrnHist.preVm, nrnCfg.VmR)
               /\ s = nrnCfg.Tr => nrn.Vm = nrnCfg.VmR
          ELSE nrnHist.mode = "integ"

\* the last cycle of a three-cycle window has set Vm to VmR
C17_Witness ==
    /\ AfterVmFmG
    /\ nrnCfg.Tr = 3 /\ nrnHist.since = 3
    /\ nrnHist.preVm # nrnCfg.VmR
    /\ nrn.Vm = nrnCfg.VmR

\* C18: after every VmFmG, the refractory ones included, Vm lies within
\* [VmRange.Min, VmRange.Max].
C18_VmInRange ==
    AfterVmFmG => (nrn.Vm >= VmRangeMin /\ nrn.Vm <= VmRangeMax)

\* the same when the reset potential VmR is configured within the range
VmInRangeWhenVmRIs ==
    (AfterVmFmG /\ nrnCfg.VmR >= VmRangeMin /\ nrnCfg.VmR <= VmRangeMax)
        => (nrn.Vm >= VmRangeMin /\ nrn.Vm <= VmRangeMax)


(***************************************************************************)
(* The conductance step of the neuron: ActParams.GeFmSyn and GiFmSyn of    *)
(* act.go, called in this order by LayerParams.GFmRawSyn.  The draw of the *)
(* Poisson noise (PGe, PGi: a noise spike or none) is an input.            *)
(***************************************************************************)
ClampGe == 80         \* ac.Clamp.Ge
AttnMin == 80         \* ac.Attn.Min
GeTau == 5            \* ac.Dt.GeTau; GeDt = 1 / GeTau
GiTau == 7            \* ac.Dt.GiTau; GiDt = 1 / GiTau
MaxGCycles == 2       \* cycles that are run
NoiseGs == {0, 1, -5} \* ac.Noise.Ge, ac.Noise.Gi that are configured
GSynVals == {-20, 0, 60}
GExtVals == {-30, 0}
ExtVals == {-50, 50}  \* nrn.Ext
AttnVals == {0, 100}  \* nrn.Attn

\* DtParams.GeSynFmRaw, GiSynFmRaw
GeSynFmRaw(geSyn, geRaw) == geSyn + geRaw - TruncDiv(geSyn, GeTau)

GiSynFmRaw(giSyn, giRaw) == giSyn + giRaw - TruncDiv(giSyn, GiTau)

\* AttnParams.ModVal
ModVal(cfg, val, attn) ==
    LET v == IF val < 0 THEN 0 ELSE val
    IN IF ~cfg.AttnOn THEN v ELSE NMul(v, AttnMin + NMul(NU - AttnMin, attn))

\* ActParams.GeNoise; pge: PGe has drawn a noise spike
GeNoise(cfg, n, pge) ==
    IF ~cfg.NoiseOn \/ cfg.NoiseGe = 0 THEN n
    ELSE LET ge == IF pge THEN cfg.NoiseGe ELSE 0
             gn == GeSynFmRaw(n.GeNoise, ge)
         IN [n EXCEPT !.GeNoise = gn, !.Ge = @ + gn]

\* ActParams.GiNoise; pgi: PGi has drawn a noise spike
GiNoise(cfg, n, pgi) ==
    IF ~cfg.NoiseOn \/ cfg.NoiseGi = 0 THEN n
    ELSE LET gi == IF pgi THEN cfg.NoiseGi ELSE 0
         IN [n EXCEPT !.GiNoise = GiSynFmRaw(n.GiNoise, gi)]

\* if nrn.Ge < 0 { nrn.Ge = 0 }
GeClamp(ge) == IF ge < 0 THEN 0 ELSE ge

\* ActParams.GeFmSyn
GeFmSyn(cfg, n, geSyn, geExt, pge) ==
    LET add == cfg.ClampAdd /\ n.HasExt
        set == ~cfg.ClampAdd /\ n.HasExt
        geExt1 == IF add THEN NMul(n.Ext, ClampGe) ELSE 0
        geSyn1 == ModVal(cfg, IF add THEN geSyn + geExt1 ELSE geSyn, n.Attn)
        geSyn2 == IF set THEN NMul(n.Ext, ClampGe) ELSE geSyn1
        geExt2 == IF set THEN geSyn2 ELSE geExt1
        extra == IF set THEN 0 ELSE geExt
    IN GeNoise(cfg, [n EXCEPT !.GeExt = geExt2, !.Ge = GeClamp(geSyn2 + extra)], pge)

\* ActParams.GiFmSyn: the neuron with GiSyn set to what is returned
GiFmSyn(cfg, n, giSyn, pgi) ==
    [GiNoise(cfg, n, pgi) EXCEPT !.GiSyn = IF giSyn < 0 THEN 0 ELSE giSyn]

GInit ==
    /\ nrnOn = "g"
    /\ nrnCfg \in [ClampAdd : BOOLEAN, AttnOn : BOOLEAN, NoiseOn : BOOLEAN,
                   NoiseGe : NoiseGs, NoiseGi : NoiseGs]
    /\ \E hasExt \in BOOLEAN, ext \in ExtVals, attn \in AttnVals :
          /\ hasExt \/ ext = 50
          /\ nrn = [Ge |-> 0, GeExt |-> 0, GeNoise |-> 0, GiNoise |-> 0, GiSyn |-> 0,
                    Ext |-> IF hasExt THEN ext ELSE 0, HasExt |-> hasExt, Attn |-> attn]
    /\ nrnPhase = "ge"
    /\ nrnCyc = 0
    /\ nrnHist = <<>>

InitG == GInit /\ OldOff /\ ErrOff /\ IoOff /\ GpuOff /\ ParOff /\ KinOff /\ LateOff

\* GFmRawSyn: ly.Act.GeFmSyn(...)
NrnGeFmSyn(geSyn, geExt, pge) ==
    /\ nrnOn = "g" /\ nrnPhase = "ge"
    /\ nrnCyc < MaxGCycles
    /\ nrn' = GeFmSyn(nrnCfg, nrn, geSyn, geExt, pge)
    /\ nrnPhase' = "gi"
    /\ UNCHANGED <<nrnOn, nrnCfg, nrnCyc, nrnHist>>
    /\ UNCHANGED notNrn

\* GFmRawSyn: nrn.GiSyn = ly.Act.GiFmSyn(...)
NrnGiFmSyn(giSyn, pgi) ==
    /\ nrnOn = "g" /\ nrnPhase = "gi"
    /\ nrn' = GiFmSyn(nrnCfg, nrn, giSyn, pgi)
    /\ nrnPhase' = "ge"
    /\ nrnCyc' = nrnCyc + 1
    /\ UNCHANGED <<nrnOn, nrnCfg, nrnHist>>
    /\ UNCHANGED notNrn

NextG ==
    \/ \E geSyn \in GSynVals, geExt \in GExtVals, pge \in BOOLEAN :
          NrnGeFmSyn(geSyn, geExt, pge)
    \/ \E giSyn \in GSynVals, pgi \in BOOLEAN : NrnGiFmSyn(giSyn, pgi)

SpecG == InitG /\ [][NextG]_vars

(***************************************************************************)
(* Claims about the conductances (SpecG).                                  *)
(***************************************************************************)
\* C19: for any synaptic, external and noise inputs, negative ones included,
\* the Ge that GeFmSyn leaves and the inhibitory conductance that GiFmSyn
\* returns are never negative.
C19_GeGiNeverNegative ==
    nrnOn = "g" => (nrn.Ge >= 0 /\ nrn.GiSyn >= 0)

\* the same when the noise conductance per spike is not negative
GeGiNotNegativeNoiseNot ==
    (nrnOn = "g" /\ (~nrnCfg.NoiseOn \/ nrnCfg.NoiseGe >= 0))
        => (nrn.Ge >= 0 /\ nrn.GiSyn >= 0)

\* what GiFmSyn returns is never negative
GiSynNotNegative == nrnOn = "g" => nrn.GiSyn >= 0


(***************************************************************************)
(* The kinase simulation, Sim.Run of pptg.go: every cycle it advances the  *)
(* synaptic calcium traces cycle by cycle with KinaseSynParams.FmSpike     *)
(* (the c values), and next to them the event-driven values (the o         *)
(* values), which are set at a spike and from which the values of an idle  *)
(* cycle are computed in one step over the cISI idle cycles.  Calcium is   *)
(* fixed point, KU units to 1.0; the parameters are those of               *)
(* KinaseSynParams.Defaults.  The send and receive spikes (Poisson draws)  *)
(* are inputs; the product values and the table of the plot are left out.  *)
(***************************************************************************)
KU == 10000
KinSpikeG == 8        \* kp.SpikeG
MTau == 10            \* kp.MTau; MDt = 1 / MTau
PTau == 40            \* kp.PTau; PDt = 1 / PTau
DTau == 40            \* kp.DTau; DDt = 1 / DTau
Tmax == 100           \* kp.Tmax
Ymax == 20000         \* kp.Ymax
Yres == 100           \* kp.Yres
MaxSimT == 7          \* ss.DurMsec, cycles that are run
TolPct == 1           \* tolerance, in percent of the larger value,
TolAbs == 20          \*   with this much to spare near zero

\* mat32.Exp(-kp.MDt * cISI) and mat32.FastExp of the same, to the resolution
ExpMDt == <<10000, 9048, 8187, 7408, 6703, 6065, 5488, 4966, 4493, 4066, 3679>>

ExpNeg(k) == IF k + 1 <= Len(ExpMDt) THEN ExpMDt[k + 1] ELSE 0

\* KinaseSynParams.FmSpike
FmSpike(spike, ca) ==
    LET caM == ca.CaM + TruncDiv(KinSpikeG * spike * KU - ca.CaM, MTau)
        caP == ca.CaP + TruncDiv(caM - ca.CaP, PTau)
        caD == ca.CaD + TruncDiv(caP - ca.CaD, DTau)
    IN [ca EXCEPT !.Spk = spike, !.CaM = caM, !.CaP = caP, !.CaD = caD]

\* KinaseSynParams.FillFun: the entry [pi, mi, t] of kp.PFun
RECURSIVE PFunLoop(_, _, _)
PFunLoop(m, ps, t) ==
    LET m1 == m - TruncDiv(m, MTau)
        ps1 == ps + TruncDiv(m1 - ps, PTau)
    IN IF t = 0 THEN ps1 ELSE PFunLoop(m1, ps1, t - 1)

PFun(pi, mi, t) == PFunLoop(mi * Yres, pi * Yres, t)

\* KinaseSynParams.PVal
PVal(pv, mv, t) ==
    LET pv1 == IF pv > Ymax THEN Ymax ELSE IF pv < 0 THEN 0 ELSE pv
        mv1 == IF mv > Ymax THEN Ymax ELSE IF mv < 0 THEN 0 ELSE mv
        t1 == IF t < 0 THEN 0 ELSE IF t > Tmax THEN Tmax ELSE t
    IN PFun(pv1 \div Yres, mv1 \div Yres, t1)

KinZero == [Spk |-> 0, CaM |-> 0, CaP |-> 0, CaD |-> 0]

KinInit ==
    /\ kinOn = TRUE
    /\ kinT = 0
    /\ kinR = KinZero /\ kinS = KinZero /\ kinC = KinZero
    /\ kinO = [SpkCaM |-> 0, SpkCaP |-> 0, SpkCaD |-> 0, CaM |-> 0, CaP |-> 0]
    /\ kinISI = 0
    /\ kinIdle = -1

InitKin == KinInit /\ OldOff /\ ErrOff /\ IoOff /\ GpuOff /\ ParOff /\ NrnOff /\ LateOff

\* "optimized": the o values of a cycle with a spike
OptSpike(o, isi) ==
    LET mprv == IF isi > 0 THEN TruncDiv(o.SpkCaM * ExpNeg(isi), KU) ELSE 0
        minc == TruncDiv(KinSpikeG * KU - mprv, MTau)
        spkCaM == mprv + minc
        spkCaP == IF isi > 0 THEN PVal(o.SpkCaP, spkCaM, isi) ELSE o.SpkCaP
    IN [o EXCEPT !.SpkCaM = spkCaM, !.SpkCaP = spkCaP, !.CaM = spkCaM, !.CaP = spkCaP]

\* "optimized": the o values of an idle cycle, isi cycles after the spike
OptIdle(o, isi) ==
    [o EXCEPT !.CaM = TruncDiv(o.SpkCaM * ExpNeg(isi), KU),
              !.CaP = PVal(o.SpkCaP, o.SpkCaM, isi - 1)]

\* one iteration of the loop over t in Sim.Run
SimRunStep(sSpk, rSpk) ==
    /\ kinOn
    /\ kinT < MaxSimT
    /\ LET cSpk == IF sSpk > 0 \/ rSpk > 0 THEN 1 ELSE 0
       IN /\ kinR' = FmSpike(rSpk, kinR)
          /\ kinS' = FmSpike(sSpk, kinS)
          /\ kinC' = FmSpike(cSpk, kinC)
          /\ kinO' = IF cSpk > 0 THEN OptSpike(kinO, kinISI)
                     ELSE OptIdle(kinO, kinISI + 1)
          /\ kinISI' = IF cSpk > 0 THEN 0 ELSE kinISI + 1
          /\ kinIdle' = IF cSpk > 0
                        THEN (IF kinC = KinZero /\ kinIdle = -1 THEN 0 ELSE -2)
                        ELSE (IF kinIdle >= 0 THEN kinIdle + 1 ELSE kinIdle)
    /\ kinT' = kinT + 1
    /\ UNCHANGED kinOn
    /\ UNCHANGED notKin

NextKin == \E sSpk \in {0, 1}, rSpk \in {0, 1} : SimRunStep(sSpk, rSpk)

SpecKin == InitKin /\ [][NextKin]_vars

(***************************************************************************)
(* Claims about the calcium traces (SpecKin).                              *)
(***************************************************************************)
Within(a, b) ==
    LET big == IF a >= b THEN a ELSE b
    IN Dist(a, b) * 100 <= TolPct * big + TolAbs * 100

\* C20: after a spike into a synapse at rest and k idle cycles, the CaM, CaP
\* and CaD computed in one step over the k cycles are, within tolerance,
\* those of k single-cycle updates with no spike.
C20_FastForwardEqualsSteps ==
    (kinOn /\ kinIdle >= 1) =>
        /\ Within(kinO.CaM, kinC.CaM)
        /\ Within(kinO.CaP, kinC.CaP)
        /\ Within(kinO.SpkCaD, kinC.CaD)

\* the same for CaM alone, for CaP alone, for CaD alone
KinCaMWithin == (kinOn /\ kinIdle >= 1) => Within(kinO.CaM, kinC.CaM)
KinCaPWithin == (kinOn /\ kinIdle >= 1) => Within(kinO.CaP, kinC.CaP)
KinCaDWithin == (kinOn /\ kinIdle >= 1) => Within(kinO.SpkCaD, kinC.CaD)

(***************************************************************************)
(* Spikes in refractory cycles (SpecVm).                                   *)
(***************************************************************************)
\* the threshold SpikeFmVm compares Vm with
ActiveThr(cfg) == IF cfg.Exp THEN SpikeExpThr ELSE SpikeThr

\* C28: with the reset potential VmR below the active spiking threshold, a
\* neuron emits no spike in a cycle whose VmFmG took the refractory branch
\* (0 <= ISI < Tr on entry), so that two spikes are more than Tr cycles
\* apart.
C28_NoSpikeWhileRefractory ==
    (nrnOn = "vm" /\ nrnPhase = "g" /\ nrnCyc > 0
        /\ nrnCfg.VmR < ActiveThr(nrnCfg))
        => ~(nrnHist.mode = "decay" /\ nrn.Spike = 1)

\* the same where Vm is set to VmR in the one refractory cycle (Tr = 1), or
\* the exponential threshold ExpThr is the active one
NoSpikeWhileRefractoryTr1OrExp ==
    (nrnOn = "vm" /\ nrnPhase = "g" /\ nrnCyc > 0
        /\ nrnCfg.VmR < ActiveThr(nrnCfg) /\ (nrnCfg.Tr = 1 \/ nrnCfg.Exp))
        => ~(nrnHist.mode = "decay" /\ nrn.Spike = 1)

(***************************************************************************)
(* Prjn.DWtSubMean (prjn_compute.go; prjn.go has the same loop over        *)
(* RecvSynIdx).  One projection onto a layer of three receiving neurons:   *)
(* neuron 0 has the synapses 1, 2, 3, neuron 1 has synapse 4 and neuron 2  *)
(* has none.  DWt and SubMean are fixed point, One to 1.0.                 *)
(***************************************************************************)
SmNeurons == {0, 1, 2}
SmSyns == 1 .. 4
SmDWtVals == {-5, 0, 2, 9}
SmSubMeans == {0, One \div 2, One}
SmOrders ==
    {<<1, 2, 3>>, <<1, 3, 2>>, <<2, 1, 3>>, <<2, 3, 1>>, <<3, 1, 2>>, <<3, 2, 1>>}

\* pj.RecvSyns(ri)
SmRecvSyns(ri) == IF ri = 0 THEN smOrd ELSE IF ri = 1 THEN <<4>> ELSE <<>>

\* the first loop over syns: sumDWt and nnz of the synapses from ci on
RECURSIVE SumDWt(_, _, _)
SumDWt(dw, syns, ci) ==
    IF ci > Len(syns) THEN 0
    ELSE (IF dw[syns[ci]] # 0 THEN dw[syns[ci]] ELSE 0) + SumDWt(dw, syns, ci + 1)

RECURSIVE Nnz(_, _, _)
Nnz(dw, syns, ci) ==
    IF ci > Len(syns) THEN 0
    ELSE (IF dw[syns[ci]] # 0 THEN 1 ELSE 0) + Nnz(dw, syns, ci + 1)

\* a second loop that subtracts from every synapse, zero DWt or not
SubMeanAlways(sm, mean, d) == d - Mul(sm, mean)

\* the second loop, for one synapse: sy.DWt -= sm * sumDWt if sy.DWt != 0
SubMeanSyn(sm, mean, d) == IF d # 0 THEN d - Mul(sm, mean) ELSE d

\* the body of the loop over the receiving neurons
DWtSubMeanNrn(sm, dw, syns) ==
    IF Len(syns) < 1 \/ Nnz(dw, syns, 1) <= 1 THEN dw
    ELSE LET mean == TruncDiv(SumDWt(dw, syns, 1), Nnz(dw, syns, 1))
         IN [k \in DOMAIN dw |->
               IF \E ci \in 1 .. Len(syns) : syns[ci] = k
               THEN SubMeanSyn(sm, mean, dw[k]) ELSE dw[k]]

RECURSIVE DWtSubMeanFrom(_, _, _)
DWtSubMeanFrom(sm, dw, ri) ==
    IF ri \notin SmNeurons THEN dw
    ELSE DWtSubMeanFrom(sm, DWtSubMeanNrn(sm, dw, SmRecvSyns(ri)), ri + 1)

\* Prjn.DWtSubMean
DWtSubMean(sm, dw) == IF sm = 0 THEN dw ELSE DWtSubMeanFrom(sm, dw, 0)

SmInit ==
    /\ smOn = TRUE
    /\ smSubMean \in SmSubMeans
    /\ smOrd \in SmOrders
    /\ smPhase = "dwt"
    /\ smPre = [k \in SmSyns |-> 0]
    /\ smDWt = [k \in SmSyns |-> 0]

InitSm == SmInit /\ OldOff /\ EarlyOff /\ SsOff /\ ExOff /\ SymOff /\ BxOff /\ RlOff

\* the DWt pass leaves a delta in every synapse
SmDWt(d) ==
    /\ smOn /\ smPhase = "dwt"
    /\ smDWt' = d
    /\ smPre' = d
    /\ smPhase' = "submean"
    /\ UNCHANGED <<smOn, smSubMean, smOrd>>
    /\ UNCHANGED notSm

SmDWtSubMean ==
    /\ smOn /\ smPhase = "submean"
    /\ smDWt' = DWtSubMean(smSubMean, smDWt)
    /\ smPhase' = "done"
    /\ UNCHANGED <<smOn, smSubMean, smOrd, smPre>>
    /\ UNCHANGED notSm

NextSm ==
    \/ \E d \in [SmSyns -> SmDWtVals] : SmDWt(d)
    \/ SmDWtSubMean

SpecSm == InitSm /\ [][NextSm]_vars

(***************************************************************************)
(* Claims about mean subtraction (SpecSm).                                 *)
(***************************************************************************)
\* the synapses of a receiving neuron, as a set, and those with a nonzero
\* delta before the pass
SmSynSet(ri) == IF ri = 0 THEN {1, 2, 3} ELSE IF ri = 1 THEN {4} ELSE {}

SmNonZero(ri) == {k \in SmSynSet(ri) : smPre[k] # 0}

RECURSIVE SmSetSum(_, _)
SmSetSum(f, S) ==
    IF S = {} THEN 0
    ELSE LET k == CHOOSE x \in S : TRUE IN f[k] + SmSetSum(f, S \ {k})

SmAbs(x) == IF x < 0 THEN -x ELSE x

\* C22: after DWtSubMean, for every receiving neuron with more than one
\* nonzero DWt, every nonzero DWt is the DWt of before less SubMean times the
\* mean of the neuron's nonzero DWt of before the pass (whatever the order
\* in which the synapses are listed), a DWt of 0 is still 0, a neuron with at
\* most one nonzero DWt is unchanged, and with SubMean = 1 the nonzero DWt of
\* a neuron sum to zero, up to the rounding of the one division.
C22_SubMeanReduceThenApply ==
    (smOn /\ smPhase = "done") =>
        \A ri \in SmNeurons :
            LET nz == SmNonZero(ri)
                n == Cardinality(nz)
            IN /\ \A k \in SmSynSet(ri) \ nz : smDWt[k] = 0
               /\ n <= 1 => \A k \in nz : smDWt[k] = smPre[k]
               /\ n > 1 =>
                     LET mean == TruncDiv(SmSetSum(smPre, nz), n)
                     IN /\ \A k \in nz :
                              smDWt[k] = smPre[k] - Mul(smSubMean, mean)
                        /\ smSubMean = One => SmAbs(SmSetSum(smDWt, nz)) < n

\* a neuron with three nonzero deltas, not all equal, had the whole mean
\* subtracted and a synapse of another neuron was left alone
C22_Witness ==
    /\ smOn /\ smPhase = "done" /\ smSubMean = One
    /\ smPre[1] = 9 /\ smPre[2] = -5 /\ smPre[3] = 2 /\ smPre[4] = 9
    /\ smDWt[1] = 7 /\ smDWt[2] = -7 /\ smDWt[3] = 0 /\ smDWt[4] = 9
    /\ smOrd = <<3, 1, 2>>

(***************************************************************************)
(* Prjn.SetSynVal and Prjn.SynIdx of prjn.go, called from outside on a     *)
(* projection between the two layers of two neurons: the full projection   *)
(* 1 or the one-to-one projection 2, in which the sending neuron 0 has no  *)
(* synapse onto the receiving neuron 1.  Values are in WtUnit.             *)
(***************************************************************************)
MaxSetCalls == 2
SynapseVars == {"Wt", "SWt"}          \* names SynapseVarByName knows
SsVarNms == SynapseVars \cup {"Wgt"}
SsVals == {0, WtUnit \div 2}

\* len(pj.Syns)
NSyns(pj) == IF pj = 1 THEN NSend * NRecv ELSE NSend

\* Prjn.SynIdx on the projection pj
PrjnSynIdx(pj, sidx, ridx) ==
    LET F[c \in 0 .. NRecv] ==
            IF c >= SendConN(pj, sidx) THEN -1
            ELSE IF SendConIdx(pj, SendConIdxStart(pj, sidx) + c) # ridx
            THEN F[c + 1]
            ELSE SendConIdxStart(pj, sidx) + c
    IN IF sidx >= NSend THEN -1 ELSE F[0]

\* Prjn.SetSynVal(varNm, sidx, ridx, val) on the projection pj with synapses
\* syns: the synapses after the call and the error returned
PrjnSetSynVal(pj, syns, varNm, sidx, ridx, val) ==
    LET err == IF varNm \in SynapseVars THEN "nil" ELSE "err"
        synIdx == PrjnSynIdx(pj, sidx, ridx)
    IN IF err # "nil" THEN [syns |-> syns, err |-> err]
       ELSE IF synIdx < 0 \/ synIdx >= NSyns(pj)
       THEN [syns |-> syns, err |-> err]      \* return err: SynVarIdx's, nil
       ELSE IF varNm = "SWt"
       THEN [syns |-> [syns EXCEPT ![synIdx].SWt = val], err |-> "nil"]
       ELSE LET swt == IF syns[synIdx].SWt = 0 THEN val ELSE syns[synIdx].SWt
            IN [syns |-> [syns EXCEPT ![synIdx] =
                            [Wt |-> val, SWt |-> swt, LWt |-> IoLWtFmWts(val, swt)]],
                err |-> "nil"]

SsInit ==
    /\ ssOn = TRUE
    /\ ssPrjn \in Prjns
    /\ ssSyns = [k \in 0 .. (NSyns(ssPrjn) - 1) |->
                    [Wt |-> WtUnit \div 4, SWt |-> WtUnit \div 4, LWt |-> WtUnit \div 2]]
    /\ ssPre = ssSyns
    /\ ssArgs = <<>>
    /\ ssRet = "nil"
    /\ ssN = 0

InitSs == SsInit /\ OldOff /\ EarlyOff /\ SmOff /\ ExOff /\ SymOff /\ BxOff /\ RlOff

CallSetSynVal(varNm, sidx, ridx, val) ==
    /\ ssOn /\ ssN < MaxSetCalls
    /\ LET r == PrjnSetSynVal(ssPrjn, ssSyns, varNm, sidx, ridx, val)
       IN /\ ssSyns' = r.syns
          /\ ssRet' = r.err
    /\ ssPre' = ssSyns
    /\ ssArgs' = [varNm |-> varNm, sidx |-> sidx, ridx |-> ridx, val |-> val]
    /\ ssN' = ssN + 1
    /\ UNCHANGED <<ssOn, ssPrjn>>
    /\ UNCHANGED notSs

NextSs ==
    \E varNm \in SsVarNms, sidx \in 0 .. NSend, ridx \in 0 .. NRecv, val \in SsVals :
        CallSetSynVal(varNm, sidx, ridx, val)

SpecSs == InitSs /\ [][NextSs]_vars

(***************************************************************************)
(* Claims about SetSynVal (SpecSs).                                        *)
(***************************************************************************)
\* the projection has a synapse from sending neuron sidx to receiving
\* neuron ridx
HasSyn(pj, sidx, ridx) ==
    /\ sidx \in Senders /\ ridx \in Recvs
    /\ pj = 1 \/ sidx = ridx

SsCalled == ssOn /\ ssN > 0

\* C23: a SetSynVal call for a pair of neurons with no synapse between them,
\* or with a variable name that is not valid, returns a non-nil error and
\* changes no synapse.
C23_ErrorOnAccessError ==
    (SsCalled /\ (~HasSyn(ssPrjn, ssArgs.sidx, ssArgs.ridx)
                     \/ ssArgs.varNm \notin SynapseVars))
        => (ssRet = "err" /\ ssSyns = ssPre)

\* such a call changes no synapse
SetSynValAccessErrorNoChange ==
    (SsCalled /\ (~HasSyn(ssPrjn, ssArgs.sidx, ssArgs.ridx)
                     \/ ssArgs.varNm \notin SynapseVars))
        => ssSyns = ssPre

\* a call with a variable name that is not valid returns an error
SetSynValErrorOnBadName ==
    (SsCalled /\ ssArgs.varNm \notin SynapseVars) => ssRet = "err"

\* a call returns an error only for a variable name that is not valid
SetSynValErrorOnlyOnBadName ==
    (SsCalled /\ ssRet = "err") => ssArgs.varNm \notin SynapseVars

(***************************************************************************)
(* External input: LayerTypes.IsExt and IsExtLayerType of layertypes.go    *)
(* and ApplyExt2 of gpu_applyext.hlsl, for one neuron of a layer of any    *)
(* type.  ly.InitExt and ly.ApplyExtVal are not in the sources at hand:    *)
(* the first clears the neuron's external input, the second stores the     *)
(* caller's value in it.                                                   *)
(***************************************************************************)
MaxApplyExt == 2
ExExtVals == {0, 1, 2}

\* the LayerTypes enum, in its order
LayerTypes ==
    <<"SuperLayer", "InputLayer", "TargetLayer", "CompareLayer", "CTLayer",
      "PulvinarLayer", "TRNLayer", "PTMaintLayer", "PTPredLayer",
      "PTNotMaintLayer", "RewLayer", "RSalienceAChLayer", "RWPredLayer",
      "RWDaLayer", "TDPredLayer", "TDIntegLayer", "TDDaLayer", "BLALayer",
      "CeMLayer", "PPTgLayer", "VSPatchLayer", "VTALayer", "LHbLayer",
      "DrivesLayer", "EffortLayer", "USLayer", "PVLayer", "MatrixLayer",
      "STNLayer", "GPLayer", "VThalLayer", "VSGatedLayer">>

LayerTypeSet == {LayerTypes[i] : i \in DOMAIN LayerTypes}

IsExtLayerType(lt) ==
    lt = "InputLayer" \/ lt = "TargetLayer" \/ lt = "CompareLayer" \/ lt = "RewLayer"

\* LayerTypes.IsExt
IsExt(lt) ==
    lt = "InputLayer" \/ lt = "TargetLayer" \/ lt = "CompareLayer" \/ lt = "RewLayer"

NoExt == [Ext |-> 0, HasExt |-> FALSE]

\* ly.InitExt, ly.ApplyExtVal
LayInitExt(n) == NoExt

ApplyExtVal(n, val) == [Ext |-> val, HasExt |-> TRUE]

ExInit ==
    /\ exOn = TRUE
    /\ exLayType \in LayerTypeSet
    /\ exExts = 0
    /\ exNrn = NoExt
    /\ exN = 0

InitEx == ExInit /\ OldOff /\ EarlyOff /\ SmOff /\ SsOff /\ SymOff /\ BxOff /\ RlOff

\* the caller provides the value of the neuron
SetExts(v) ==
    /\ exOn /\ exN < MaxApplyExt
    /\ exExts' = v
    /\ UNCHANGED <<exOn, exLayType, exNrn, exN>>
    /\ UNCHANGED notEx

ApplyExt2 ==
    /\ exOn /\ exN < MaxApplyExt
    /\ exNrn' = IF IsExtLayerType(exLayType)
                THEN ApplyExtVal(LayInitExt(exNrn), exExts)
                ELSE LayInitExt(exNrn)
    /\ exN' = exN + 1
    /\ UNCHANGED <<exOn, exLayType, exExts>>
    /\ UNCHANGED notEx

NextEx ==
    \/ \E v \in ExExtVals : SetExts(v)
    \/ ApplyExt2

SpecEx == InitEx /\ [][NextEx]_vars

(***************************************************************************)
(* Claims about external input (SpecEx).                                   *)
(***************************************************************************)
InputTargetCompare == {"InputLayer", "TargetLayer", "CompareLayer"}

\* C25: a layer type takes external input, i.e. IsExt and IsExtLayerType
\* return true and ApplyExt gives the neuron the caller's value, exactly when
\* it is Input, Target or Compare.
C25_ExtExactlyInputTargetCompare ==
    exOn =>
        /\ IsExt(exLayType) <=> exLayType \in InputTargetCompare
        /\ IsExtLayerType(exLayType) <=> exLayType \in InputTargetCompare
        /\ exN > 0 => (exNrn.HasExt <=> exLayType \in InputTargetCompare)

\* the same with the Rew layer type among those that take external input
ExtExactlyInputTargetCompareRew ==
    exOn =>
        /\ IsExt(exLayType) <=> exLayType \in InputTargetCompare \cup {"RewLayer"}
        /\ IsExtLayerType(exLayType)
              <=> exLayType \in InputTargetCompare \cup {"RewLayer"}
        /\ exN > 0 =>
              (exNrn.HasExt <=> exLayType \in InputTargetCompare \cup {"RewLayer"})

(***************************************************************************)
(* Prjn.InitWtSym of prjn.go.  pj goes from a layer of SymNA neurons to a  *)
(* layer of SymNB neurons, rpj goes back; each has any set of connections, *)
(* held as in the code: the synapses of a sending neuron are one block of  *)
(* Syns and SendConIdx, in the order of the receiving neurons.  The        *)
(* indexes of the search are uint32: a value of 2^31 or above is written   *)
(* here as the negative number congruent to it modulo 2^32, so up - 1 for  *)
(* up = 0 is -1, `dn >= 0` is true of every value, and an index written as *)
(* a negative number is beyond the end of every array.                     *)
(***************************************************************************)
SymNA == 3
SymNB == 2
SymA == 0 .. (SymNA - 1)
SymB == 0 .. (SymNB - 1)

\* pj.SendConN[si], pj.SendConIdxStart[si], pj.SendConIdx[k] of the
\* projection with the connections con
SymConN(con, si) == Cardinality({c \in con : c[1] = si})

SymConIdxStart(con, si) == Cardinality({c \in con : c[1] < si})

SymConIdx(con, k) ==
    LET si == CHOOSE x \in 0 .. SymNA :
                 SymConIdxStart(con, x) <= k
                     /\ k < SymConIdxStart(con, x) + SymConN(con, x)
        rs == {c[2] : c \in {d \in con : d[1] = si}}
    IN CHOOSE r \in rs :
          Cardinality({q \in rs : q < r}) = k - SymConIdxStart(con, si)

\* the sending neuron of synapse k, and the index of the synapse si -> ri
SymSendOf(con, k) ==
    CHOOSE x \in 0 .. SymNA :
        SymConIdxStart(con, x) <= k /\ k < SymConIdxStart(con, x) + SymConN(con, x)

SymSynOf(con, si, ri) ==
    SymConIdxStart(con, si) + Cardinality({c \in con : c[1] = si /\ c[2] < ri})

\* sy of pj.Syns[k]: every synapse of pj has values of its own
SymSy(k) == [Wt |-> 10 + k, LWt |-> 20 + k, SWt |-> 30 + k]

SymNoSy == [Wt |-> 0, LWt |-> 0, SWt |-> 0]

\* `if dn >= 0`, of a uint32
SymDnGe0(dn) == TRUE

\* the for loop of the search: the index in rpj.Syns of the synapse found,
\* "none" if the loop is left by `!doing`, "panic" if an index is out of range
RECURSIVE SymSearch(_, _, _, _, _, _)
SymSearch(rcon, si, rsst, rsnc, up, dn) ==
    LET upHit == up < rsnc /\ SymConIdx(rcon, rsst + up) = si
        up1 == IF up < rsnc THEN up + 1 ELSE up
        rrii == rsst + dn
    IN IF upHit THEN [kind |-> "found", rrii |-> rsst + up]
       ELSE IF SymDnGe0(dn)
       THEN IF rrii < 0 \/ rrii >= Cardinality(rcon)
            THEN [kind |-> "panic", rrii |-> rrii]
            ELSE IF SymConIdx(rcon, rrii) = si
            THEN [kind |-> "found", rrii |-> rrii]
            ELSE SymSearch(rcon, si, rsst, rsnc, up1, dn - 1)
       ELSE IF up < rsnc
       THEN SymSearch(rcon, si, rsst, rsnc, up1, dn)
       ELSE [kind |-> "none", rrii |-> 0]

\* the body of the loop over ci, for the synapse k of pj
SymSyn(con, rcon, k, st) ==
    LET si == SymSendOf(con, k)
        rsi == SymConIdx(con, k)
        rsnc == SymConN(rcon, rsi)
        rsst == SymConIdxStart(rcon, rsi)
    IN IF rsnc = 0 THEN st
       ELSE LET rist == SymConIdx(rcon, rsst)
                ried == SymConIdx(rcon, rsst + rsnc - 1)
                up == IF ried > rist
                      THEN (rsnc * (si - rist)) \div (ried - rist) ELSE 0
            IN IF si < rist \/ si > ried THEN st
               ELSE LET f == SymSearch(rcon, si, rsst, rsnc, up, up - 1)
                    IN IF f.kind = "panic" THEN [st EXCEPT !.panic = TRUE]
                       ELSE IF f.kind = "found"
                       THEN [st EXCEPT !.rsyns[f.rrii] = SymSy(k)]
                       ELSE st

\* Prjn.InitWtSym: the loops over si and ci visit pj.Syns in order
RECURSIVE InitWtSymFrom(_, _, _, _)
InitWtSymFrom(con, rcon, k, st) ==
    IF st.panic \/ k >= Cardinality(con) THEN st
    ELSE InitWtSymFrom(con, rcon, k + 1, SymSyn(con, rcon, k, st))

InitWtSym(con, rcon, rsyns) ==
    InitWtSymFrom(con, rcon, 0, [rsyns |-> rsyns, panic |-> FALSE])

SymInit ==
    /\ symOn = TRUE
    /\ symPj \in SUBSET (SymA \X SymB)
    /\ symRpj \in SUBSET (SymB \X SymA)
    /\ symRSyns = [j \in 0 .. (Cardinality(symRpj) - 1) |-> SymNoSy]
    /\ symPanic = FALSE
    /\ symDone = FALSE

InitSym == SymInit /\ OldOff /\ EarlyOff /\ SmOff /\ SsOff /\ ExOff /\ BxOff /\ RlOff

RunInitWtSym ==
    /\ symOn /\ ~symDone
    /\ LET r == InitWtSym(symPj, symRpj, symRSyns)
       IN /\ symRSyns' = r.rsyns
          /\ symPanic' = r.panic
    /\ symDone' = TRUE
    /\ UNCHANGED <<symOn, symPj, symRpj>>
    /\ UNCHANGED notSym

NextSym == RunInitWtSym

SpecSym == InitSym /\ [][NextSym]_vars

(***************************************************************************)
(* Claims about weight symmetry (SpecSym).                                 *)
(***************************************************************************)
\* what rpj.Syns[j] is to hold: the values of the synapse of pj between the
\* same two neurons, if pj has one, and what it held before otherwise
SymExpected(j) ==
    LET b == SymSendOf(symRpj, j)
        a == SymConIdx(symRpj, j)
    IN IF <<a, b>> \in symPj THEN SymSy(SymSynOf(symPj, a, b)) ELSE SymNoSy

\* C27: for any two projections between the layers, sparse ones included,
\* InitWtSym ends without an index outside the connection arrays, every
\* synapse of rpj that has a reciprocal synapse in pj holds that synapse's
\* Wt, LWt and SWt, and every other synapse of rpj is unchanged.
C27_InitWtSymOnlyReciprocal ==
    (symOn /\ symDone) =>
        /\ ~symPanic
        /\ \A j \in DOMAIN symRSyns : symRSyns[j] = SymExpected(j)

\* every synapse of pj has its reciprocal synapse in rpj
SymAllReciprocal == \A c \in symPj : <<c[2], c[1]>> \in symRpj

\* the same for projections in which every synapse of pj has a partner
InitWtSymWhenAllReciprocal ==
    (symOn /\ symDone /\ SymAllReciprocal) =>
        /\ ~symPanic
        /\ \A j \in DOMAIN symRSyns : symRSyns[j] = SymExpected(j)

\* the second half alone: a run that ends without a panic leaves rpj as it
\* should be
InitWtSymNoPanicThenRight ==
    (symOn /\ symDone /\ ~symPanic) =>
        \A j \in DOMAIN symRSyns : symRSyns[j] = SymExpected(j)

(***************************************************************************)
(* Projection indexes in NetworkBase.Build and BuildPrjnGBuf of            *)
(* networkbase.go, for a network of BxNLayers layers of which any may be   *)
(* switched off.  A projection is named by its receiving layer and its     *)
(* place in ly.RcvPrjns.  pj.Params is set by Build's layer pass only, so  *)
(* the projections of a layer that is off have a nil Params unless an      *)
(* earlier Build, with the layer on, left one.                             *)
(***************************************************************************)
BxNLayers == 3
MaxRecvPrjns == 2
BxLayers == 0 .. (BxNLayers - 1)
BxAllPrjns == BxLayers \X (0 .. (MaxRecvPrjns - 1))

\* *ly.RecvPrjns()
BxRcvPrjns(li) == [pi \in 1 .. bxNRecv[li] |-> <<li, pi - 1>>]

\* Build, the loop that allocates per layer: nt.Prjns[prjnIdx + pi] = pj for
\* the layers that are not off
RECURSIVE BxLayerPass(_, _)
BxLayerPass(li, prjns) ==
    IF li \notin BxLayers THEN prjns
    ELSE BxLayerPass(li + 1,
            IF li \in bxLayOff THEN prjns ELSE prjns \o BxRcvPrjns(li))

\* pj.Params is not nil
BxHasParams(pj) == bxHadParams \/ pj[1] \notin bxLayOff

\* the loops over nt.Layers and ly.RcvPrjns of the synapse pass and of
\* BuildPrjnGBuf, which visit every layer and set PrjnIdx = pjidx, from the
\* projection pi of layer li on: st = [idx, pjidx, panic]
RECURSIVE BxPrjnIdxPass(_, _, _)
BxPrjnIdxPass(li, pi, st) ==
    IF st.panic \/ li \notin BxLayers THEN st
    ELSE IF pi > bxNRecv[li] THEN BxPrjnIdxPass(li + 1, 1, st)
    ELSE LET pj == <<li, pi - 1>>
         IN IF ~BxHasParams(pj) THEN [st EXCEPT !.panic = TRUE]
            ELSE BxPrjnIdxPass(li, pi + 1,
                    [st EXCEPT !.idx[pj] = st.pjidx, !.pjidx = @ + 1])

BxNoIdx == [pj \in BxAllPrjns |-> -1]

\* sy.PrjnIdx of the synapses: a layer that is off has no neurons and so no
\* synapses
BxSynIdxs(idx) ==
    [pj \in BxAllPrjns |-> IF pj[1] \in bxLayOff THEN -1 ELSE idx[pj]]

BxInit ==
    /\ bxOn = TRUE
    /\ bxNRecv \in [BxLayers -> 0 .. MaxRecvPrjns]
    /\ bxLayOff \in SUBSET BxLayers
    /\ bxHadParams \in BOOLEAN
    /\ bxPrjns = <<>>
    /\ bxPrjnIdx = BxNoIdx
    /\ bxSyPrjnIdx = BxNoIdx
    /\ bxPanic = FALSE
    /\ bxDone = {}

InitBx == BxInit /\ OldOff /\ EarlyOff /\ SmOff /\ SsOff /\ ExOff /\ SymOff /\ RlOff

\* NetworkBase.Build
BxBuild ==
    /\ bxOn /\ bxDone = {}
    /\ bxPrjns' = BxLayerPass(0, <<>>)
    /\ LET r == BxPrjnIdxPass(0, 1, [idx |-> bxPrjnIdx, pjidx |-> 0, panic |-> FALSE])
       IN /\ bxPrjnIdx' = r.idx
          /\ bxSyPrjnIdx' = BxSynIdxs(r.idx)
          /\ bxPanic' = r.panic
    /\ bxDone' = {"Build"}
    /\ UNCHANGED <<bxOn, bxNRecv, bxLayOff, bxHadParams>>
    /\ UNCHANGED notBx

\* NetworkBase.BuildPrjnGBuf, called by InitWts after a Build that returned
BxBuildPrjnGBuf ==
    /\ bxOn /\ bxDone = {"Build"} /\ ~bxPanic
    /\ LET r == BxPrjnIdxPass(0, 1, [idx |-> bxPrjnIdx, pjidx |-> 0, panic |-> FALSE])
       IN /\ bxPrjnIdx' = r.idx
          /\ bxPanic' = r.panic
    /\ bxDone' = {"Build", "PrjnGBuf"}
    /\ UNCHANGED <<bxOn, bxNRecv, bxLayOff, bxHadParams, bxPrjns, bxSyPrjnIdx>>
    /\ UNCHANGED notBx

NextBx == BxBuild \/ BxBuildPrjnGBuf

SpecBx == InitBx /\ [][NextBx]_vars

(***************************************************************************)
(* Claims about projection indexes (SpecBx).                               *)
(***************************************************************************)
BxConfigured == {pj \in BxAllPrjns : pj[2] < bxNRecv[pj[1]]}

\* i is a position of nt.Prjns and holds pj
BxIsPlaceOf(i, pj) == i >= 0 /\ i < Len(bxPrjns) /\ bxPrjns[i + 1] = pj

\* C29: after Build, and after BuildPrjnGBuf, for every layer, switched off
\* or not, and each of its receiving projections, the index stored in the
\* projection, and in its synapses if it has any, is a position of nt.Prjns
\* and that position holds the projection.
C29_PrjnIdxIsPlaceInPrjns ==
    (bxOn /\ bxDone # {}) =>
        /\ ~bxPanic
        /\ \A pj \in BxConfigured :
              /\ BxIsPlaceOf(bxPrjnIdx[pj], pj)
              /\ pj[1] \notin bxLayOff => BxIsPlaceOf(bxSyPrjnIdx[pj], pj)

\* no layer that has receiving projections is switched off
BxNoRecvLayerOff == \A li \in bxLayOff : bxNRecv[li] = 0

\* the same for networks in which no layer with receiving projections is off
PrjnIdxIsPlaceWhenNoneOff ==
    (bxOn /\ bxDone # {} /\ BxNoRecvLayerOff) =>
        /\ ~bxPanic
        /\ \A pj \in BxConfigured :
              /\ BxIsPlaceOf(bxPrjnIdx[pj], pj)
              /\ BxIsPlaceOf(bxSyPrjnIdx[pj], pj)

\* the same for the projections of the layers that are on, in a run that did
\* not stop at a nil Params
PrjnIdxIsPlaceInOnLayers ==
    (bxOn /\ bxDone # {} /\ ~bxPanic) =>
        \A pj \in BxConfigured :
            pj[1] \notin bxLayOff => BxIsPlaceOf(bxPrjnIdx[pj], pj)

(***************************************************************************)
(* Dopamine display: RWDaParams.GeFmDA and TDDaParams.GeFmDA of            *)
(* rl_layers.go, called by LayerParams.SpecialPreGs for the neurons of an  *)
(* RWDaLayer and of a TDDaLayer with the dopamine value of the context.    *)
(* Values are fixed point, NU to 1.0.                                      *)
(***************************************************************************)
MaxRlCycles == 2
RWTonicGe == 20       \* RWDaParams.TonicGe
TDTonicGe == 30       \* TDDaParams.TonicGe
RlDAs == {-200, -150, -100, -50, 0, 50, 100}

\* RWDaParams.GeFmDA
RWGeFmDA(da) ==
    LET ge == NMul(RWTonicGe, NU + da)
    IN IF ge < 0 THEN 0 ELSE ge

\* TDDaParams.GeFmDA
TDGeFmDA(da) == NMul(TDTonicGe, NU + da)

\* DtParams.GeSynFmRawSteady
GeSynFmRawSteady(geRaw) == geRaw * GeTau

\* LayerParams.SpecialPreGs, the cases RWDaLayer and TDDaLayer
SpecialPreGs(layType, da, n) ==
    LET geRaw == IF layType = "RWDaLayer" THEN RWGeFmDA(da) ELSE TDGeFmDA(da)
    IN [n EXCEPT !.GeRaw = geRaw, !.GeSyn = GeSynFmRawSteady(geRaw)]

RlInit ==
    /\ rlOn = TRUE
    /\ rlLayType \in {"RWDaLayer", "TDDaLayer"}
    /\ rlDA = 0
    /\ rlNrn = [GeRaw |-> 0, GeSyn |-> 0]
    /\ rlN = 0

InitRl == RlInit /\ OldOff /\ EarlyOff /\ SmOff /\ SsOff /\ ExOff /\ SymOff /\ BxOff

\* the dopamine value of the cycle is set in the context
SetDA(da) ==
    /\ rlOn /\ rlN < MaxRlCycles
    /\ rlDA' = da
    /\ UNCHANGED <<rlOn, rlLayType, rlNrn, rlN>>
    /\ UNCHANGED notRl

RlSpecialPreGs ==
    /\ rlOn /\ rlN < MaxRlCycles
    /\ rlNrn' = SpecialPreGs(rlLayType, rlDA, rlNrn)
    /\ rlN' = rlN + 1
    /\ UNCHANGED <<rlOn, rlLayType, rlDA>>
    /\ UNCHANGED notRl

NextRl ==
    \/ \E da \in RlDAs : SetDA(da)
    \/ RlSpecialPreGs

SpecRl == InitRl /\ [][NextRl]_vars

(***************************************************************************)
(* Claims about the dopamine display (SpecRl).                             *)
(***************************************************************************)
\* C30: the excitatory conductance that a dopamine-display layer (RWDa or
\* TDDa) derives from the dopamine value is never negative, whatever the
\* dopamine value, values below -1 included.
C30_GeFmDANotNegative ==
    rlOn => (rlNrn.GeRaw >= 0 /\ rlNrn.GeSyn >= 0)

\* the same for the RWDa layer
RWGeFmDANotNegative ==
    (rlOn /\ rlLayType = "RWDaLayer") => (rlNrn.GeRaw >= 0 /\ rlNrn.GeSyn >= 0)

\* the same for the TDDa layer while the dopamine value is -1 or above
TDGeFmDANotNegativeFromMinusOne ==
    [][(rlOn /\ rlLayType = "TDDaLayer" /\ rlDA >= -NU /\ rlN' = rlN + 1)
          => (rlNrn'.GeRaw >= 0 /\ rlNrn'.GeSyn >= 0)]_vars

====
